---- MODULE Spec2Model ----
(***************************************************************************)
(* A model of the news-use front end: the summary segmenter and renderer  *)
(* of the newspaper detail view (parseSummary, processChildren, the       *)
(* collapsible sections).  Text is a sequence of one-character strings;   *)
(* every regular expression of the source is an operator that matches the *)
(* way the JavaScript engine does (leftmost, greedy, with backtracking).  *)
(***************************************************************************)
EXTENDS Integers, Sequences, FiniteSets, TLC

(***************************************************************************)
(* Characters and character classes of the regular expressions.           *)
(***************************************************************************)
NL == "\n"
CR == "\r"
BS == "\\"

\* \s of a JavaScript regular expression and of String.prototype.trim
Whitespace == {" ", "\n", "\r", "\t"}
\* what "." does not match
LineTerminator == {"\n", "\r"}
\* [A-Z]
Upper == {"A", "B", "C", "D", "E", "F", "G", "H", "I", "J", "K", "L", "M",
          "N", "O", "P", "Q", "R", "S", "T", "U", "V", "W", "X", "Y", "Z"}
\* [a-z]
Lower == {"a", "b", "c", "d", "e", "f", "g", "h", "i", "j", "k", "l", "m",
          "n", "o", "p", "q", "r", "s", "t", "u", "v", "w", "x", "y", "z"}
\* \d
Digit == {"0", "1", "2", "3", "4", "5", "6", "7", "8", "9"}
\* [.!?]
Punct == {".", "!", "?"}

UpperSeq == <<"A", "B", "C", "D", "E", "F", "G", "H", "I", "J", "K", "L", "M",
              "N", "O", "P", "Q", "R", "S", "T", "U", "V", "W", "X", "Y", "Z">>
LowerSeq == <<"a", "b", "c", "d", "e", "f", "g", "h", "i", "j", "k", "l", "m",
              "n", "o", "p", "q", "r", "s", "t", "u", "v", "w", "x", "y", "z">>

(***************************************************************************)
(* String helpers: the methods of String.prototype the source calls.     *)
(***************************************************************************)
Min(S) == CHOOSE m \in S : \A k \in S : m <= k

\* the first index >= i of s whose character is not in class C (Len(s)+1 if
\* none): where a greedy C* that starts at i ends
SkipClass(s, i, C) ==
  IF i > Len(s) THEN i
  ELSE CHOOSE j \in i..(Len(s) + 1) :
         /\ j = Len(s) + 1 \/ s[j] \notin C
         /\ \A k \in i..(j - 1) : s[k] \in C

\* the first index >= i of s whose character is in class C (Len(s)+1 if none)
SkipTo(s, i, C) ==
  IF i > Len(s) THEN i
  ELSE CHOOSE j \in i..(Len(s) + 1) :
         /\ j = Len(s) + 1 \/ s[j] \in C
         /\ \A k \in i..(j - 1) : s[k] \notin C

\* the literal lit stands in s at index i
IsAt(s, i, lit) ==
  /\ i + Len(lit) - 1 <= Len(s)
  /\ \A k \in 1..Len(lit) : s[i + k - 1] = lit[k]

\* s.slice(a, b) with 1-based a and exclusive end b
Slice(s, a, b) == SubSeq(s, a, b - 1)

\* s.includes(sub)
Includes(s, sub) == \E i \in 1..(Len(s) - Len(sub) + 1) : IsAt(s, i, sub)

\* text.trim()  (s is the value of text, evaluated once)
Trim(text) ==
  CHOOSE r \in
    {LET keep == {j \in 1..Len(s) : s[j] \notin Whitespace}
     IN  IF keep = {} THEN <<>>
         ELSE SubSeq(s, SkipClass(s, 1, Whitespace),
                     CHOOSE j \in keep : \A k \in keep : k <= j)
     : s \in {text}} : TRUE

\* c.toLowerCase() of one character
LowerChar(c) ==
  IF c \in Upper
  THEN LowerSeq[CHOOSE k \in 1..26 : UpperSeq[k] = c]
  ELSE c

\* text.toLowerCase()
ToLowerCase(text) ==
  CHOOSE r \in {[k \in 1..Len(s) |-> LowerChar(s[k])] : s \in {text}} : TRUE

(***************************************************************************)
(* parseSummary, first half: the chain of replace calls that yields       *)
(* `formatted`.  One match operator and one replacement per call.         *)
(***************************************************************************)
\* /\\n\\n/g  ->  '\n\n'
EscapedBreakMatch(s, i) == IF IsAt(s, i, <<BS, "n", BS, "n">>) THEN i + 4 ELSE 0
EscapedBreakRepl(s, i, e) == <<NL, NL>>

\* /\\n/g  ->  '\n'
EscapedNewlineMatch(s, i) == IF IsAt(s, i, <<BS, "n">>) THEN i + 2 ELSE 0

\* the replacement with a blank for the line break
EscapedNewlineReplBlank(s, i, e) == <<" ">>

EscapedNewlineRepl(s, i, e) == <<NL>>

\* the pattern asking for whitespace on both sides of the backslash
BackslashMatchSurrounded(s, i) ==
  LET a == SkipClass(s, i, Whitespace)
  IN  IF a > i /\ a <= Len(s) /\ s[a] = BS /\ SkipClass(s, a + 1, Whitespace) > a + 1
      THEN SkipClass(s, a + 1, Whitespace) ELSE 0

\* /\s*\\\s*/g  ->  ' '
BackslashMatch(s, i) ==
  LET a == SkipClass(s, i, Whitespace)
  IN  IF a <= Len(s) /\ s[a] = BS THEN SkipClass(s, a + 1, Whitespace) ELSE 0
BackslashRepl(s, i, e) == <<" ">>

\* /\r\n/g  ->  '\n'
CrLfMatch(s, i) == IF IsAt(s, i, <<CR, NL>>) THEN i + 2 ELSE 0
CrLfRepl(s, i, e) == <<NL>>

\* the pattern with {4,} for {3,}
NewlineRunMatchFour(s, i) ==
  LET e == SkipClass(s, i, {NL}) IN IF e - i >= 4 THEN e ELSE 0

\* /\n{3,}/g  ->  '\n\n'
NewlineRunMatch(s, i) ==
  LET e == SkipClass(s, i, {NL}) IN IF e - i >= 3 THEN e ELSE 0
NewlineRunRepl(s, i, e) == <<NL, NL>>

\* /([.!?])\s*(\d+\.)/g  ->  '$1\n\n$2'
NumberedMatch(s, i) ==
  IF s[i] \notin Punct THEN 0
  ELSE LET a == SkipClass(s, i + 1, Whitespace)
           d == SkipClass(s, a, Digit)
       IN  IF d > a /\ d <= Len(s) /\ s[d] = "." THEN d + 1 ELSE 0
\* '$1\n\n$2' where $2 starts after the whitespace that follows $1
BreakRepl(s, i, e) ==
  <<s[i], NL, NL>> \o Slice(s, SkipClass(s, i + 1, Whitespace), e)

\* [A-Z][a-z]+ at a: its exclusive end, 0 if there is none
CapWordEnd(s, a) ==
  IF a <= Len(s) /\ s[a] \in Upper
  THEN LET b == SkipClass(s, a + 1, Lower) IN IF b > a + 1 THEN b ELSE 0
  ELSE 0

\* (?:\s+[A-Z][a-z]+)* from b0, greedy: the end of the longest chain
CapChainEnd(s, b0) ==
  LET chain[b \in 1..(Len(s) + 1)] ==
        LET w == SkipClass(s, b, Whitespace)
            c == IF w > b THEN CapWordEnd(s, w) ELSE 0
        IN  IF c # 0 THEN chain[c] ELSE b
  IN  chain[b0]

\* /([.!?])\s*([A-Z][a-z]+(?:\s+[A-Z][a-z]+)*:)/g  ->  '$1\n\n$2'
ColonHeadingMatch(s, i) ==
  IF s[i] \notin Punct THEN 0
  ELSE LET c == CapWordEnd(s, SkipClass(s, i + 1, Whitespace))
           z == IF c = 0 THEN 0 ELSE CapChainEnd(s, c)
       IN  IF z # 0 /\ z <= Len(s) /\ s[z] = ":" THEN z + 1 ELSE 0

\* /\)\s*([A-Z][a-z]+\s+[A-Z])/g  ->  ')\n\n$1'
ParenMatch(s, i) ==
  IF s[i] # ")" THEN 0
  ELSE LET c == CapWordEnd(s, SkipClass(s, i + 1, Whitespace))
           w == IF c = 0 THEN 0 ELSE SkipClass(s, c, Whitespace)
       IN  IF c # 0 /\ w > c /\ w <= Len(s) /\ s[w] \in Upper THEN w + 1 ELSE 0

ArticleWord == <<"A", "r", "t", "i", "c", "l", "e">>

\* /([.!?])\s*(Article\s+\d+)/g  ->  '$1\n\n$2'
ArticleBreakMatch(s, i) ==
  IF s[i] \notin Punct THEN 0
  ELSE LET a == SkipClass(s, i + 1, Whitespace)
           w == SkipClass(s, a + 7, Whitespace)
           d == SkipClass(s, w, Digit)
       IN  IF IsAt(s, a, ArticleWord) /\ w > a + 7 /\ d > w THEN d ELSE 0

\* the common sentence starters that are kept together
connectors ==
  {<<"T", "h", "e">>,
   <<"T", "h", "i", "s">>,
   <<"T", "h", "a", "t">>,
   <<"T", "h", "e", "s", "e">>,
   <<"T", "h", "o", "s", "e">>,
   <<"A">>,
   <<"A", "n">>,
   <<"I", "n">>,
   <<"O", "n">>,
   <<"A", "t">>,
   <<"F", "r", "o", "m">>,
   <<"F", "o", "r">>,
   <<"A", "n", "d">>,
   <<"B", "u", "t">>,
   <<"O", "r">>,
   <<"A", "s">>,
   <<"I", "t">>,
   <<"I", "t", "s">>,
   <<"I", "t", "'", "s">>,
   <<"I", "f">>,
   <<"W", "h", "e", "n">>,
   <<"W", "h", "i", "l", "e">>,
   <<"T", "o">>,
   <<"B", "y">>}

\* /([.!?])\s+([A-Z](?:[a-z]+|I)\s)/g
SentenceMatch(s, i) ==
  IF s[i] \notin Punct THEN 0
  ELSE LET a == SkipClass(s, i + 1, Whitespace)
           b == SkipClass(s, a + 1, Lower)
       IN  IF ~(a > i + 1 /\ a <= Len(s) /\ s[a] \in Upper) THEN 0
           ELSE IF b > a + 1 /\ b <= Len(s) /\ s[b] \in Whitespace THEN b + 1
           ELSE IF a + 2 <= Len(s) /\ s[a + 1] = "I" /\ s[a + 2] \in Whitespace
                THEN a + 3
           ELSE 0

\* the replacer, comparing the word with its trailing blank to the list
SentenceReplUntrimmed(s, i, e) ==
  LET nextWord == Slice(s, SkipClass(s, i + 1, Whitespace), e)
  IN  IF nextWord \in connectors THEN Slice(s, i, e)
      ELSE <<s[i], NL, NL>> \o nextWord

\* the replacer (match, punctuation, nextWord) => ...
SentenceRepl(s, i, e) ==
  LET nextWord == Slice(s, SkipClass(s, i + 1, Whitespace), e)
      word == Trim(nextWord)
  IN  IF word \in connectors THEN Slice(s, i, e)
      ELSE <<s[i], NL, NL>> \o nextWord

\* the exclusive end of the match of pattern `pat` that starts at i of s
\* (0: no match at i)
MatchEnd(pat, s, i) ==
  CASE pat = "escapedBreak"   -> EscapedBreakMatch(s, i)
    [] pat = "escapedNewline" -> EscapedNewlineMatch(s, i)
    [] pat = "backslash"      -> BackslashMatch(s, i)
    [] pat = "crlf"           -> CrLfMatch(s, i)
    [] pat = "newlineRun"     -> NewlineRunMatch(s, i)
    [] pat = "numbered"       -> NumberedMatch(s, i)
    [] pat = "colonHeading"   -> ColonHeadingMatch(s, i)
    [] pat = "paren"          -> ParenMatch(s, i)
    [] pat = "articleBreak"   -> ArticleBreakMatch(s, i)
    [] pat = "sentence"       -> SentenceMatch(s, i)

\* what replaces the match s[i..e-1] of pattern `pat`
Replacement(pat, s, i, e) ==
  CASE pat = "escapedBreak"   -> EscapedBreakRepl(s, i, e)
    [] pat = "escapedNewline" -> EscapedNewlineRepl(s, i, e)
    [] pat = "backslash"      -> BackslashRepl(s, i, e)
    [] pat = "crlf"           -> CrLfRepl(s, i, e)
    [] pat = "newlineRun"     -> NewlineRunRepl(s, i, e)
    [] pat = "sentence"       -> SentenceRepl(s, i, e)
    [] OTHER                  -> BreakRepl(s, i, e)

\* s.replace(pat, ...) with a global pattern: the matches are taken leftmost
\* first and never overlap
\* (s is the value of text, evaluated once; from[p] is the result for s[p..])
ReplaceAll(text, pat) ==
  CHOOSE r \in
    {LET from[p \in 1..(Len(s) + 1)] ==
           LET cand == {i \in p..Len(s) : MatchEnd(pat, s, i) # 0}
           IN  IF cand = {} THEN SubSeq(s, p, Len(s))
               ELSE LET i == Min(cand)
                        e == MatchEnd(pat, s, i)
                    IN  SubSeq(s, p, i - 1) \o Replacement(pat, s, i, e) \o from[e]
     IN  from[1]
     : s \in {text}} : TRUE

\* the replace calls before the sentence pass, in the order of the chain
ReplaceChain ==
  <<"escapedBreak", "escapedNewline", "backslash", "crlf", "newlineRun",
    "numbered", "colonHeading", "paren", "articleBreak">>

\* the text the sentence pass is applied to: after[k] is the text after the
\* first k calls of the chain
BeforeSentencePass(content) ==
  LET after[k \in 0..Len(ReplaceChain)] ==
        IF k = 0 THEN content ELSE ReplaceAll(after[k - 1], ReplaceChain[k])
  IN  after[Len(ReplaceChain)]

\* the text after the first n calls of the chain
AfterPasses(content, n) ==
  LET after[k \in 0..n] ==
        IF k = 0 THEN content ELSE ReplaceAll(after[k - 1], ReplaceChain[k])
  IN  after[n]

\* the text with its escaped newlines made line breaks (the first two calls)
Converted(content) == AfterPasses(content, 2)

\* the text with its escapes and line breaks normalized (the first five calls)
Normalized(content) == AfterPasses(content, 5)

\* the general sentence-boundary pass
SentencePass(s) == ReplaceAll(s, "sentence")

\* const formatted = content.replace(...)...replace(...)
Format(content) == SentencePass(BeforeSentencePass(content))

(***************************************************************************)
(* parseSummary, second half: the heading markers and the sections.       *)
(***************************************************************************)
NoMatch == [index |-> 0, end |-> 0, titleStart |-> 0, titleEnd |-> 0]

\* [ \t]*(.+?)\n from k0: the blanks after the marker stay on its line
HeadingTailSameLine(s, index, k0) ==
  LET t == SkipClass(s, k0, {" ", "\t"})
      r == SkipTo(s, t, LineTerminator)
  IN  IF t <= Len(s) /\ r > t /\ r <= Len(s) /\ s[r] = NL
      THEN [index |-> index, end |-> r + 1, titleStart |-> t, titleEnd |-> r]
      ELSE NoMatch

\* \s*(.+?)\n from k0, for the heading that the match at `index` opened:
\* \s* is greedy and gives back one character at a time, .+? is the run of
\* characters up to the next line terminator, which has to be a newline
HeadingTail(s, index, k0) ==
  LET wsEnd == SkipClass(s, k0, Whitespace)
      lineEnd(t) == SkipTo(s, t, LineTerminator)
      ok == {t \in k0..wsEnd :
               /\ t <= Len(s)
               /\ s[t] \notin LineTerminator
               /\ lineEnd(t) <= Len(s)
               /\ s[lineEnd(t)] = NL}
  IN  IF ok = {} THEN NoMatch
      ELSE LET t == CHOOSE x \in ok : \A y \in ok : y <= x
           IN  [index |-> index, end |-> lineEnd(t) + 1,
                titleStart |-> t, titleEnd |-> lineEnd(t)]

\* (?:##\s*(.+?)|(\d+)\.\s*(.+?))\n with the heading text starting at h
HeadingAt(s, index, h) ==
  LET d == SkipClass(s, h, Digit)
  IN  IF IsAt(s, h, <<"#", "#">>) THEN HeadingTail(s, index, h + 2)
      ELSE IF d > h /\ d <= Len(s) /\ s[d] = "." THEN HeadingTail(s, index, d + 1)
      ELSE NoMatch

\* the pattern without (?:^|\n): a marker anywhere in a line
headerPatternAnywhere(s, i) == HeadingAt(s, i, i)

\* headerPattern = /(?:^|\n)(?:##\s*(.+?)|(\d+)\.\s*(.+?))\n/g  tried at i:
\* ^ holds at the start of the text only (the pattern has no m flag)
headerPattern(s, i) ==
  LET atStart == IF i = 1 THEN HeadingAt(s, i, i) ELSE NoMatch
  IN  IF atStart # NoMatch THEN atStart
      ELSE IF s[i] = NL THEN HeadingAt(s, i, i + 1)
      ELSE NoMatch

\* [...formatted.matchAll(headerPattern)]
\* (s is the value of text, evaluated once; from[p] holds the matches in s[p..])
MatchAll(text) ==
  CHOOSE r \in
    {LET from[p \in 1..(Len(s) + 1)] ==
           LET cand == {i \in p..Len(s) : headerPattern(s, i) # NoMatch}
           IN  IF cand = {} THEN <<>>
               ELSE LET m == headerPattern(s, Min(cand))
                    IN  <<m>> \o from[m.end]
     IN  from[1]
     : s \in {text}} : TRUE

\* the substantiality threshold of the text before the first header
MinPreContent == 50

Summary == <<"s", "u", "m", "m", "a", "r", "y">>
Comprehensive == <<"c", "o", "m", "p", "r", "e", "h", "e", "n", "s", "i", "v", "e">>
Context == <<"c", "o", "n", "t", "e", "x", "t">>
Background == <<"b", "a", "c", "k", "g", "r", "o", "u", "n", "d">>
Mean == <<"m", "e", "a", "n">>
Matter == <<"m", "a", "t", "t", "e", "r">>
Why == <<"w", "h", "y">>
Related == <<"r", "e", "l", "a", "t", "e", "d">>
Bigger == <<"b", "i", "g", "g", "e", "r">>
Picture == <<"p", "i", "c", "t", "u", "r", "e">>
ComprehensiveSummaryTitle == <<"C", "o", "m", "p", "r", "e", "h", "e", "n", "s", "i", "v", "e", " ", "S", "u", "m", "m", "a", "r", "y">>
AnalysisTitle == <<"A", "n", "a", "l", "y", "s", "i", "s">>

\* the section key with the second test made first
SectionKeyContextFirst(title) ==
  CHOOSE key \in
    {IF Includes(lowerTitle, Context) \/ Includes(lowerTitle, Background)
       THEN "context"
     ELSE IF Includes(lowerTitle, Summary) \/ Includes(lowerTitle, Comprehensive)
       THEN "comprehensive"
     ELSE IF Includes(lowerTitle, Mean) \/ Includes(lowerTitle, Matter)
             \/ Includes(lowerTitle, Why)
       THEN "meaning"
     ELSE IF Includes(lowerTitle, Related) \/ Includes(lowerTitle, Bigger)
             \/ Includes(lowerTitle, Picture)
       THEN "related"
     ELSE "other"
     : lowerTitle \in {ToLowerCase(title)}} : TRUE

\* the section key, from the title
SectionKey(title) ==
  CHOOSE key \in
    {IF Includes(lowerTitle, Summary) \/ Includes(lowerTitle, Comprehensive)
       THEN "comprehensive"
     ELSE IF Includes(lowerTitle, Context) \/ Includes(lowerTitle, Background)
       THEN "context"
     ELSE IF Includes(lowerTitle, Mean) \/ Includes(lowerTitle, Matter)
             \/ Includes(lowerTitle, Why)
       THEN "meaning"
     ELSE IF Includes(lowerTitle, Related) \/ Includes(lowerTitle, Bigger)
             \/ Includes(lowerTitle, Picture)
       THEN "related"
     ELSE "other"
     : lowerTitle \in {ToLowerCase(title)}} : TRUE

\* the leading section with >= for > in the length test
PreSectionAtLeast(formatted, matches) ==
  LET preContent == Trim(Slice(formatted, 1, matches[1].index))
  IN  IF matches[1].index > 1 /\ Len(preContent) >= MinPreContent
      THEN <<[title |-> ComprehensiveSummaryTitle,
              content |-> preContent,
              key |-> "comprehensive"]>>
      ELSE <<>>

\* the section pushed when the text before the first header is substantial
PreSection(formatted, matches) ==
  LET preContent == Trim(Slice(formatted, 1, matches[1].index))
  IN  IF matches[1].index > 1 /\ Len(preContent) > MinPreContent
      THEN <<[title |-> ComprehensiveSummaryTitle,
              content |-> preContent,
              key |-> "comprehensive"]>>
      ELSE <<>>

\* the section of matches[i] with the content cut one character early
HeaderSectionShort(formatted, matches, i) ==
  LET match == matches[i]
      title == Slice(formatted, match.titleStart, match.titleEnd)
      startIdx == match.end
      endIdx == IF i < Len(matches) THEN matches[i + 1].index
                ELSE Len(formatted) + 1
  IN  [title |-> Trim(title),
       content |-> Trim(Slice(formatted, startIdx, endIdx - 1)),
       key |-> SectionKey(title)]

\* the section of matches[i] with the content taken from the end of the line
\* the match begins on
HeaderSectionAfterMarkerLine(formatted, matches, i) ==
  LET match == matches[i]
      title == Slice(formatted, match.titleStart, match.titleEnd)
      startIdx == SkipTo(formatted, match.index + 1, {NL}) + 1
      endIdx == IF i < Len(matches) THEN matches[i + 1].index
                ELSE Len(formatted) + 1
  IN  [title |-> Trim(title),
       content |-> Trim(Slice(formatted, startIdx, endIdx)),
       key |-> SectionKey(title)]

\* the section of matches[i]
HeaderSection(formatted, matches, i) ==
  LET match == matches[i]
      title == Slice(formatted, match.titleStart, match.titleEnd)
      startIdx == match.end
      endIdx == IF i < Len(matches) THEN matches[i + 1].index
                ELSE Len(formatted) + 1
  IN  [title |-> Trim(title),
       content |-> Trim(Slice(formatted, startIdx, endIdx)),
       key |-> SectionKey(title)]

\* the section returned when no section was found
FallbackSection(formatted) ==
  [title |-> AnalysisTitle, content |-> formatted, key |-> "comprehensive"]

\* the sections without the fallback for an empty list
SectionsNoFallback(formatted, matches) ==
  IF Len(matches) > 0
  THEN PreSection(formatted, matches)
       \o [i \in 1..Len(matches) |-> HeaderSection(formatted, matches, i)]
  ELSE <<>>

\* the sections put in the order of their keys after they were found
SectionsSortedByKey(formatted, matches) ==
  CHOOSE sorted \in
    {LET rank(key) ==
           CHOOSE r \in 1..5 :
             <<"comprehensive", "context", "meaning", "related", "other">>[r] = key
         before(i) ==
           Cardinality({j \in 1..Len(found) :
                          \/ rank(found[j].key) < rank(found[i].key)
                          \/ rank(found[j].key) = rank(found[i].key) /\ j < i})
     IN  [k \in 1..Len(found) |->
            found[CHOOSE i \in 1..Len(found) : before(i) = k - 1]]
     : found \in {IF Len(matches) > 0 THEN SectionsNoFallback(formatted, matches)
                   ELSE <<FallbackSection(formatted)>>}} :
    TRUE

\* the sections of `formatted`, given the matches of headerPattern in it
Sections(formatted, matches) ==
  LET found == IF Len(matches) > 0
               THEN PreSection(formatted, matches)
                    \o [i \in 1..Len(matches) |-> HeaderSection(formatted, matches, i)]
               ELSE <<>>
  IN  IF Len(found) = 0 THEN <<FallbackSection(formatted)>> ELSE found

parseSummary(content) ==
  LET formatted == Format(content) IN Sections(formatted, MatchAll(formatted))

(***************************************************************************)
(* processChildren and the markdown components.  A React child is a       *)
(* string, an array of children, an element, or nothing (null).           *)
(***************************************************************************)
Null == [t |-> "null"]
Str(s) == [t |-> "string", s |-> s]
Arr(items) == [t |-> "array", items |-> items]
\* <type key={key} className={className}>{children}</type>
El(type, key, className, children) ==
  [t |-> "element", type |-> type, key |-> key, className |-> className,
   children |-> children]

NoKey == -1
HighlightClass == "text-orange-500 font-semibold"

\* /\(Article \d+\)|Article \d+|Articles? \d+(?:\s*&\s*\d+)?/ at i of s:
\* the exclusive end of the match (0: no match at i)
ArticleRefMatchOnlyPlain(s, i) ==
  LET d2 == SkipClass(s, i + 8, Digit)
      k == IF i + 7 <= Len(s) /\ s[i + 7] = "s" THEN i + 8 ELSE i + 7
      d3 == SkipClass(s, k + 1, Digit)
      a == SkipClass(s, d3, Whitespace)
      b == SkipClass(s, a + 1, Whitespace)
      d4 == SkipClass(s, b, Digit)
  IN  IF IsAt(s, i, ArticleWord \o <<" ">>) /\ d2 > i + 8 THEN d2
      ELSE IF IsAt(s, i, ArticleWord) /\ k <= Len(s) /\ s[k] = " " /\ d3 > k + 1
        THEN (IF a <= Len(s) /\ s[a] = "&" /\ d4 > b THEN d4 ELSE d3)
      ELSE 0

ArticleRefMatch(s, i) ==
  LET d1 == SkipClass(s, i + 9, Digit)
      d2 == SkipClass(s, i + 8, Digit)
      k == IF i + 7 <= Len(s) /\ s[i + 7] = "s" THEN i + 8 ELSE i + 7
      d3 == SkipClass(s, k + 1, Digit)
      a == SkipClass(s, d3, Whitespace)
      b == SkipClass(s, a + 1, Whitespace)
      d4 == SkipClass(s, b, Digit)
  IN  IF /\ IsAt(s, i, <<"(">> \o ArticleWord \o <<" ">>)
         /\ d1 > i + 9 /\ d1 <= Len(s) /\ s[d1] = ")" THEN d1 + 1
      ELSE IF IsAt(s, i, ArticleWord \o <<" ">>) /\ d2 > i + 8 THEN d2
      ELSE IF IsAt(s, i, ArticleWord) /\ k <= Len(s) /\ s[k] = " " /\ d3 > k + 1
        THEN (IF a <= Len(s) /\ s[a] = "&" /\ d4 > b THEN d4 ELSE d3)
      ELSE 0

\* pattern.test(s)
ArticleRefTest(s) == \E i \in 1..Len(s) : ArticleRefMatch(s, i) # 0

\* text.split(/(...)/g) with the whole pattern captured: the text before the
\* first match, the match, the text up to the next match, ..., the rest
\* (s is the value of text, evaluated once)
SplitByArticleRef(text) ==
  CHOOSE r \in
    {LET from[p \in 1..(Len(s) + 1)] ==
           LET cand == {i \in p..Len(s) : ArticleRefMatch(s, i) # 0}
           IN  IF cand = {} THEN <<SubSeq(s, p, Len(s))>>
               ELSE LET i == Min(cand)
                    IN  <<SubSeq(s, p, i - 1), SubSeq(s, i, ArticleRefMatch(s, i) - 1)>>
                          \o from[ArticleRefMatch(s, i)]
     IN  from[1]
     : s \in {text}} : TRUE

\* parts.map((part, i) => ...): the part wrapped in a span if the pattern
\* is found in it (i counts from 0)
HighlightParts(parts) ==
  [k \in 1..Len(parts) |->
     IF ArticleRefTest(parts[k])
     THEN El("span", k - 1, HighlightClass, Str(parts[k]))
     ELSE Str(parts[k])]

\* processChildren that also goes into the children of an element
RECURSIVE processChildrenDeep(_)
processChildrenDeep(children) ==
  IF children.t = "string"
  THEN IF ArticleRefTest(children.s)
       THEN Arr(HighlightParts(SplitByArticleRef(children.s)))
       ELSE children
  ELSE IF children.t = "array"
  THEN Arr([k \in 1..Len(children.items) |-> processChildrenDeep(children.items[k])])
  ELSE IF children.t = "element"
  THEN [children EXCEPT !.children = processChildrenDeep(children.children)]
  ELSE children

RECURSIVE processChildren(_)
processChildren(children) ==
  IF children.t = "string"
  THEN IF ArticleRefTest(children.s)
       THEN Arr(HighlightParts(SplitByArticleRef(children.s)))
       ELSE children
  ELSE IF children.t = "array"
  THEN Arr([k \in 1..Len(children.items) |-> processChildren(children.items[k])])
  ELSE children

\* the tags given a component that hands its children to processChildren
markdownComponents == {"p", "li", "strong", "em", "h3", "h4"}

\* a node of the markdown tree of a section's content
Text(s) == [t |-> "text", s |-> s]
Node(tag, kids) == [t |-> "node", tag |-> tag, kids |-> kids]

\* <ReactMarkdown components={markdownComponents}>: a text node renders as
\* its string; an element renders its children and hands them to the
\* component of its tag, if there is one, else to the plain tag
RECURSIVE RenderNode(_)
RenderNode(node) ==
  IF node.t = "text" THEN Str(node.s)
  ELSE El(node.tag, NoKey, "",
          IF node.tag \in markdownComponents
          THEN processChildren(Arr([k \in 1..Len(node.kids) |-> RenderNode(node.kids[k])]))
          ELSE Arr([k \in 1..Len(node.kids) |-> RenderNode(node.kids[k])]))

(***************************************************************************)
(* The Convex functions of newspapers.ts on the table created_newspapers.  *)
(* A table is the sequence of its documents in insertion order; the _id of *)
(* a document is its place in it.  An optional value is <<>> when absent   *)
(* and <<v>> when present.                                                 *)
(***************************************************************************)
None == <<>>
Some(v) == <<v>>

\* const limit = args.limit ?? 20
DefaultLimit == 20

\* the document ctx.db.insert stores for the arguments, at time t
Document(args, id, t) ==
  [_id |-> id,
   query |-> args.query,
   newspapers |-> args.newspapers,
   articleCount |-> args.articleCount,
   headlines |-> args.headlines,
   createdAt |-> t,
   userName |-> args.userName,
   isPublic |-> args.isPublic]

\* the table after the insert of createNewspaper with every field taken
\* from the arguments but isPublic, stored as true
InsertAllPublic(table, args, t) ==
  Append(table, [Document(args, Len(table) + 1, t) EXCEPT !.isPublic = TRUE])

\* createNewspaper: the table after ctx.db.insert(...) at time t; the
\* identifier returned is the _id of the last document
Insert(table, args, t) == Append(table, Document(args, Len(table) + 1, t))

\* a stands after b in the index by_created_at: by createdAt, then by
\* creation
Newer(a, b) ==
  a.createdAt > b.createdAt \/ (a.createdAt = b.createdAt /\ a._id > b._id)

\* .withIndex("by_created_at").order("desc")
ByCreatedAtDesc(table) ==
  CHOOSE sorted \in
    {[k \in 1..Len(table) |-> table[CHOOSE i \in 1..Len(table) : before[i] = k - 1]] :
       before \in {[i \in 1..Len(table) |->
                     Cardinality({j \in 1..Len(table) : Newer(table[j], table[i])})]}} :
    TRUE

\* .take(n)
Take(s, n) == SubSeq(s, 1, IF n < Len(s) THEN n ELSE Len(s))

IsPublicDoc(d) == d.isPublic = TRUE

\* listNewspapers taking the limit before the filter
listNewspapersTakeFirst(table, args) ==
  SelectSeq(Take(ByCreatedAtDesc(table),
                 IF args.limit = None THEN DefaultLimit ELSE args.limit[1]),
            IsPublicDoc)

\* listNewspapers without the filter on isPublic
listNewspapersUnfiltered(table, args) ==
  Take(ByCreatedAtDesc(table),
       IF args.limit = None THEN DefaultLimit ELSE args.limit[1])

\* listNewspapers: handler
listNewspapers(table, args) ==
  Take(SelectSeq(ByCreatedAtDesc(table), IsPublicDoc),
       IF args.limit = None THEN DefaultLimit ELSE args.limit[1])

\* getNewspaper: ctx.db.get(args.id), null when there is no such document
getNewspaper(table, args) ==
  IF args.id \in 1..Len(table) THEN table[args.id] ELSE Null

\* n.query.toLowerCase().split(" ")[0]
FirstWord(s) == SubSeq(ToLowerCase(s), 1, SkipTo(ToLowerCase(s), 1, {" "}) - 1)

\* getStats: handler
getStats(table) ==
  LET sum[k \in 0..Len(table)] ==
        IF k = 0 THEN 0 ELSE sum[k - 1] + table[k].articleCount
  IN  [totalNewspapers |-> Len(table),
       totalArticles |-> sum[Len(table)],
       uniqueTopics |-> Cardinality({FirstWord(table[k].query) : k \in 1..Len(table)})]

(***************************************************************************)
(* NewspaperDetail: the summary and the source articles of a record.  The  *)
(* entries of newspaper.newspapers are a sequence of [key, value].         *)
(***************************************************************************)
\* allArticles.find(([key]) => key.includes("summary")): the first such
\* entry, or nothing
summaryEntry(allEntries) ==
  LET found == {k \in 1..Len(allEntries) : Includes(allEntries[k].key, <<"s", "u", "m", "m", "a", "r", "y">>)}
  IN  IF found = {} THEN None
      ELSE Some(allEntries[CHOOSE k \in found : \A j \in found : k <= j])

\* the source articles without the filter on the key
sourceArticlesUnfiltered(allEntries) == allEntries

\* allArticles.filter(([key]) => !key.includes("summary"))
sourceArticles(allEntries) ==
  SelectSeq(allEntries, LAMBDA entry : ~Includes(entry.key, <<"s", "u", "m", "m", "a", "r", "y">>))

(***************************************************************************)
(* State.                                                                  *)
(***************************************************************************)
VARIABLES
  pc,          \* where the modelled call stands
  content,     \* the summary text handed to parseSummary
  formatted,   \* parseSummary: const formatted
  matches,     \* parseSummary: const matches
  sections,    \* parseSummary: the sections returned
  children,    \* processChildren: the argument of the first call
  processed,   \* processChildren(children)
  reprocessed, \* processChildren(processed)
  tree,        \* the markdown tree of a section's content
  rendered,    \* what <ReactMarkdown> renders for the tree
  expandedSections,  \* NewspaperDetail: the state expandedSections
  clicks,      \* NewspaperDetail: section buttons clicked so far
  query,       \* QueryInput: the state query
  userName,    \* QueryInput: the state userName
  includeInDatabase,  \* QueryInput: the state includeInDatabase
  showNameInput,      \* QueryInput: the state showNameInput
  isLoading,   \* QueryInput: the state isLoading
  loadingStatus,      \* QueryInput: the state loadingStatus
  buildingArticles,   \* QueryInput: the state buildingArticles
  buildingSummary,    \* QueryInput: the state buildingSummary
  createdNewspaperId, \* QueryInput: the state createdNewspaperId (<<>>: null)
  closure,     \* handleSubmit: the state values the running call closed over
  nytResponse, \* handleSubmit: const nytResponse
  allArticles, \* handleSubmit: const allArticles
  inFlight,    \* the outbound calls started and not yet returned
  calls,       \* the outbound calls of the submission, in the order started
  alerts,      \* the alerts shown by the submission
  dbAtSubmit,  \* the table as it was when the submission started
  db,          \* the table created_newspapers, in insertion order
  now,         \* the clock of the server (Date.now())
  result       \* what the last query returned

vars ==
  <<pc, content, formatted, matches, sections, children, processed,
    reprocessed, tree, rendered, expandedSections, clicks,
    query, userName, includeInDatabase, showNameInput, isLoading,
    loadingStatus, buildingArticles, buildingSummary, createdNewspaperId,
    closure, nytResponse, allArticles, inFlight, calls, alerts, dbAtSubmit,
    db, now, result>>

\* the state of QueryInput, a running handleSubmit, and the table
formVars ==
  <<query, userName, includeInDatabase, showNameInput, isLoading,
    loadingStatus, buildingArticles, buildingSummary, createdNewspaperId>>
chainVars == <<closure, nytResponse, allArticles, inFlight, calls, alerts, dbAtSubmit>>
storeVars == <<db, now, result>>
appVars == <<formVars, chainVars, storeVars>>

\* what does not change in a call of parseSummary alone
highlightVars == <<children, processed, reprocessed, tree, rendered>>
detailVars == <<expandedSections, clicks>>
parseVars == <<content, formatted, matches, sections>>

\* useState<Set<string>>(new Set(["comprehensive"]))
initialExpandedSectionsNone == {}

initialExpandedSections == {"comprehensive"}

\* the variables of the other parts, at rest
IdleHighlight ==
  /\ children = Null /\ processed = Null /\ reprocessed = Null
  /\ tree = Null /\ rendered = Null
IdleDetail == expandedSections = initialExpandedSections /\ clicks = 0
IdleParse == content = <<>> /\ formatted = <<>> /\ matches = <<>> /\ sections = <<>>

\* QueryInput as constructed (useState), no submission running
IdleForm ==
  /\ query = <<>> /\ userName = <<>>
  /\ includeInDatabase = TRUE /\ showNameInput = TRUE
  /\ isLoading = FALSE /\ loadingStatus = <<>>
  /\ buildingArticles = <<>> /\ buildingSummary = <<>>
  /\ createdNewspaperId = <<>>
IdleChain ==
  /\ closure = Null /\ nytResponse = Null /\ allArticles = <<>>
  /\ inFlight = {} /\ calls = <<>> /\ alerts = <<>> /\ dbAtSubmit = <<>>
IdleStore == db = <<>> /\ now = 0 /\ result = Null
IdleApp == IdleForm /\ IdleChain /\ IdleStore

\* createdAt: Date.now(): the time read is near the one read before, and the
\* clock may have been set back
DateNow == {t \in {now - 1, now, now + 1} : t >= 0}

(***************************************************************************)
(* The texts parseSummary is applied to.                                   *)
(***************************************************************************)
\* the longest sequence of pieces a text is built from
MaxPieces == 5

\* the texts of the sequence ps, one after the other
Concat(ps) ==
  LET upTo[k \in 0..Len(ps)] == IF k = 0 THEN <<>> ELSE upTo[k - 1] \o ps[k]
  IN  upTo[Len(ps)]

\* n times the character c
Repeat(c, n) == [k \in 1..n |-> c]

\* heading markers, a title word, line breaks and blanks, in any order
MarkerPieces == {<<"#", "#">>, <<"1", ".">>, <<"A", "b">>, <<"\n">>, <<" ">>}
MarkerTexts ==
  {Concat(ps) : ps \in UNION {[1..n -> MarkerPieces] : n \in 0..MaxPieces}}

\* text of a length around the threshold, before a first heading
PreTexts ==
  {Repeat("x", n) \o pad \o head :
     n \in {MinPreContent - 1, MinPreContent, MinPreContent + 1},
     pad \in {<<>>, <<" ">>, <<" ", " ">>, <<" ", "y">>},
     head \in {<<"\n", "#", "#", " ", "A", "b", "\n", "x">>, <<"\n", "2", ".", " ", "A", "b", "\n", "x">>}}

\* headings whose title holds up to two of the words the key is chosen by
TitleWords ==
  {<<"S", "u", "m", "m", "a", "r", "y">>, <<"C", "O", "M", "P", "R", "E", "H", "E", "N", "S", "I", "V", "E">>, <<"c", "o", "n", "t", "e", "x", "t">>, <<"B", "a", "c", "k", "g", "r", "o", "u", "n", "d">>, <<"m", "e", "a", "n", "i", "n", "g">>,
   <<"M", "a", "t", "t", "e", "r", "s">>, <<"W", "h", "y">>, <<"R", "e", "l", "a", "t", "e", "d">>, <<"b", "i", "g", "g", "e", "r">>, <<"P", "i", "c", "t", "u", "r", "e">>, <<"N", "e", "w", "s">>}
TitleTexts ==
  {<<"#", "#", " ">> \o w1 \o <<" ">> \o w2 \o <<"\n", "x">> : w1 \in TitleWords, w2 \in TitleWords}

\* a sentence end followed by a word
NextWords ==
  connectors \cup {<<"S", "o", "u", "r", "c", "e", "s">>, <<"N", "e", "x", "t">>, <<"N", "A", "S", "A">>, <<"H", "I">>, <<"I">>, <<"s", "o", "u", "r", "c", "e", "s">>}
SentenceTexts ==
  {<<"I", "t", " ", "e", "n", "d", "e", "d", ".">> \o gap \o w \o after \o <<"n", "e", "x", "t">> :
     gap \in {<<>>, <<" ">>, <<"\n">>, <<" ", " ">>},
     w \in NextWords,
     after \in {<<>>, <<" ">>, <<"\n">>, <<".">>}}

EndedThe == <<"I", "t", " ", "e", "n", "d", "e", "d", ".", " ", "T", "h", "e", " ", "n", "e", "x", "t", " ", "d", "a", "y", " ", "c", "a", "m", "e", ".">>
EndedSources == <<"I", "t", " ", "e", "n", "d", "e", "d", ".", " ", "S", "o", "u", "r", "c", "e", "s", " ", "s", "a", "i", "d", " ", "s", "o", ".">>
NumberedExample ==
  <<"#", "#", " ", "S", "u", "m", "m", "a", "r", "y", "\n", "T", "h", "i", "n", "g", "s", " ", "h", "a", "p", "p", "e", "n", "e", "d", ".", " ", "1", ".", " ", "F", "i", "r", "s", "t", " ", "p", "o", "i", "n", "t", " ", "h", "e", "r", "e", ".", " ", "2", ".", " ", "S", "e", "c", "o", "n", "d", " ", "p", "o", "i", "n", "t", " ", "h", "e", "r", "e", ".">>

ExampleTexts == {EndedThe, EndedSources, NumberedExample}

\* the longest sequence of tokens a text of escapes and breaks is built from
MaxTokens == 4

\* escaped newlines, backslashes, line breaks and blanks, in any order
EscapePieces == {<<"\\", "n">>, <<"\\">>, <<"\n">>, <<"\r", "\n">>, <<"a">>, <<" ">>}
EscapeTexts ==
  {Concat(ps) : ps \in UNION {[1..n -> EscapePieces] : n \in 0..MaxTokens}}

\* line breaks around what the paragraph-break passes look for
BreakPieces == {<<".">>, <<"\n">>, <<"1", ".">>, <<"A", "b", " ">>, <<"A", "r", "t", "i", "c", "l", "e", " ", "2">>, <<")">>, <<"C", "d", ":">>}
BreakTexts ==
  {Concat(ps) : ps \in UNION {[1..n -> BreakPieces] : n \in 0..MaxTokens}}

\* the most lines a text of heading lines is built from
MaxLines == 4

\* heading lines and a line of text, in any order; one heading has no line
\* break after it
HeadingPieces ==
  {<<"#", "#", " ", "N", "e", "w", "s", "\n">>, <<"#", "#", " ", "S", "u", "m", "m", "a", "r", "y", "\n">>, <<"1", ".", " ", "W", "h", "y", "\n">>, <<"x", "\n">>, <<"#", "#", " ", "E", "n", "d">>}
HeadingTexts ==
  {Concat(ps) : ps \in UNION {[1..n -> HeadingPieces] : n \in 0..MaxLines}}

ParseInputs ==
  MarkerTexts \cup PreTexts \cup TitleTexts \cup SentenceTexts \cup ExampleTexts
    \cup EscapeTexts \cup BreakTexts \cup HeadingTexts

(***************************************************************************)
(* parseSummary as a state machine: one call on one text.                  *)
(***************************************************************************)
InitParse ==
  /\ pc = "call"
  /\ content \in ParseInputs
  /\ formatted = <<>>
  /\ matches = <<>>
  /\ sections = <<>>
  /\ IdleHighlight
  /\ IdleDetail
  /\ IdleApp

\* parseSummary(content)
Parse ==
  /\ pc = "call"
  /\ formatted' = Format(content)
  /\ matches' = MatchAll(formatted')
  /\ sections' = Sections(formatted', matches')
  /\ pc' = "return"
  /\ UNCHANGED <<content, highlightVars, detailVars, appVars>>

NextParse == Parse

SpecParse == InitParse /\ [][NextParse]_vars

(***************************************************************************)
(* Properties of parseSummary (checked under SpecParse).                   *)
(***************************************************************************)
\* the contents of the returned sections, one after the other
AllContent == Concat([i \in 1..Len(sections) |-> sections[i].content])

\* s without its whitespace
NonBlank(s) == SelectSeq(s, LAMBDA c : c \notin Whitespace)

\* the positions of `formatted` that a heading marker (a match) covers
MarkerPositions ==
  {j \in 1..Len(formatted) :
     \E i \in 1..Len(matches) : matches[i].index <= j /\ j < matches[i].end}

\* the positions before the first marker
PrePositions ==
  IF Len(matches) = 0 THEN {} ELSE 1..(matches[1].index - 1)

\* the text before the first marker, trimmed
PreText ==
  IF Len(matches) = 0 THEN <<>>
  ELSE Trim(SubSeq(formatted, 1, matches[1].index - 1))

\* the characters of `formatted` at the positions outside `drop`, in order
Without(drop) ==
  LET upTo[j \in 0..Len(formatted)] ==
        IF j = 0 THEN <<>>
        ELSE upTo[j - 1] \o (IF j \in drop THEN <<>> ELSE <<formatted[j]>>)
  IN  upTo[Len(formatted)]

\* C1 as stated: the contents of the sections, in order, are the formatted
\* text without the heading markers; no other text is lost (blanks aside).
C1_AllTextKept ==
  pc = "return" => NonBlank(AllContent) = NonBlank(Without(MarkerPositions))

\* C1, amended: the contents of the sections, in order, are pieces of the
\* formatted text, and together they hold every non-blank character of it
\* except the heading markers and, when its trimmed length is at most 50,
\* the text before the first marker; without a marker nothing at all is lost.
C1_TextKeptButShortPre ==
  pc = "return" =>
    /\ \A i \in 1..Len(sections) :
         \E a \in 1..(Len(formatted) + 1) : IsAt(formatted, a, sections[i].content)
    /\ NonBlank(AllContent) =
         NonBlank(Without(MarkerPositions \cup
                          (IF Len(PreText) > 50 THEN {} ELSE PrePositions)))
    /\ Len(matches) = 0 => AllContent = formatted

\* C1 witness: a parsed text with a marker, a kept leading text and a body
C1_Witness ==
  /\ pc = "return"
  /\ Len(matches) > 0
  /\ Len(sections) = Len(matches) + 1
  /\ sections[2].content # <<>>

\* a line of s starts at i
LineStart(s, i) == i = 1 \/ s[i - 1] = NL

\* '## <text>' or '<integer>. <text>' stands in s at i: the marker, blanks,
\* and a character of text
MarkerShape(s, i) ==
  LET d == SkipClass(s, i, Digit)
      k0 == IF IsAt(s, i, <<"#", "#">>) THEN i + 2
            ELSE IF d > i /\ d <= Len(s) /\ s[d] = "." THEN d + 1
            ELSE 0
  IN  /\ k0 # 0
      /\ \E t \in k0..Len(s) :
           /\ \A j \in k0..(t - 1) : s[j] \in Whitespace
           /\ s[t] \notin LineTerminator

HasLineStartMarker(s) ==
  \E i \in 1..Len(s) : LineStart(s, i) /\ MarkerShape(s, i)

\* C2: a text without a '## <text>' or '<integer>. <text>' marker at a line
\* start yields exactly one section: comprehensive, 'Analysis', the whole text.
C2_NoHeadingFallback ==
  (pc = "return" /\ ~HasLineStartMarker(formatted)) =>
    sections = <<[title |-> AnalysisTitle,
                  content |-> formatted,
                  key |-> "comprehensive"]>>

\* C2 witness: a parsed text that holds '##' and '1.' but not at a line start
C2_Witness ==
  /\ pc = "return"
  /\ ~HasLineStartMarker(formatted)
  /\ Includes(formatted, <<"#", "#", "A", "b", NL>>)
  /\ Len(sections) = 1

\* the sections that come from the markers are the last Len(matches) ones
Lead == Len(sections) - Len(matches)

\* C3: with a first marker that is not at offset 0, the text before it is
\* the leading section 'Comprehensive Summary' (comprehensive) iff its trimmed
\* length exceeds 50; otherwise every section comes from a marker.
C3_Threshold ==
  (pc = "return" /\ Len(matches) > 0 /\ matches[1].index > 1) =>
    IF Len(PreText) > 50
    THEN /\ Len(sections) = Len(matches) + 1
         /\ sections[1] = [title |-> ComprehensiveSummaryTitle,
                           content |-> PreText,
                           key |-> "comprehensive"]
    ELSE /\ Len(sections) = Len(matches)
         /\ \A i \in 1..Len(matches) :
              sections[i].title =
                Trim(Slice(formatted, matches[i].titleStart, matches[i].titleEnd))

\* C3 witness: a leading text of trimmed length 51 was emitted
C3_Witness ==
  /\ pc = "return"
  /\ Len(matches) > 0
  /\ matches[1].index > 1
  /\ Len(PreText) = 51
  /\ Len(sections) = Len(matches) + 1

\* the rows of the key table, in priority order
KeyRows ==
  <<[words |-> {Summary, Comprehensive}, key |-> "comprehensive"],
    [words |-> {Context, Background}, key |-> "context"],
    [words |-> {Mean, Matter, Why}, key |-> "meaning"],
    [words |-> {Related, Bigger, Picture}, key |-> "related"]>>

\* title holds word, whatever the case of its letters
HoldsWord(title, word) ==
  \E a \in 1..(Len(title) - Len(word) + 1) :
    \A k \in 1..Len(word) : LowerChar(title[a + k - 1]) = word[k]

\* the key of the first row one of whose words the title holds
KeyByPriority(title) ==
  LET hits == {r \in 1..Len(KeyRows) : \E w \in KeyRows[r].words : HoldsWord(title, w)}
  IN  IF hits = {} THEN "other" ELSE KeyRows[Min(hits)].key

\* C4: the key of every section that comes from a marker is the key of the
\* first row of the table that its title matches, 'other' if none does.
C4_KeyPriority ==
  (pc = "return" /\ Len(matches) > 0) =>
    \A i \in (Lead + 1)..Len(sections) :
      /\ sections[i].key = KeyByPriority(sections[i].title)
      /\ sections[i].key \in {"comprehensive", "context", "meaning", "related", "other"}

\* C4 witness: a title with 'summary' and 'context' was keyed comprehensive
C4_Witness ==
  /\ pc = "return"
  /\ Len(sections) = 1
  /\ Len(matches) = 1
  /\ HoldsWord(sections[1].title, Summary)
  /\ HoldsWord(sections[1].title, Context)
  /\ sections[1].key = "comprehensive"

\* sentence-ending punctuation at i of s, whitespace, and a capitalized word
\* (a capital, then small letters or 'I') followed by whitespace: the word's
\* start, 0 if this is not what stands at i
SentenceWordAt(s, i) ==
  LET a == SkipClass(s, i + 1, Whitespace)
      b == SkipClass(s, a + 1, Lower)
  IN  IF /\ s[i] \in Punct /\ a > i + 1 /\ a <= Len(s) /\ s[a] \in Upper
         /\ \/ b > a + 1 /\ b <= Len(s) /\ s[b] \in Whitespace
            \/ a + 2 <= Len(s) /\ s[a + 1] = "I" /\ s[a + 2] \in Whitespace
      THEN a ELSE 0

\* the capitalized word at a
WordFrom(s, a) ==
  IF a + 1 <= Len(s) /\ s[a + 1] = "I" /\ SkipClass(s, a + 1, Lower) = a + 1
  THEN SubSeq(s, a, a + 1)
  ELSE SubSeq(s, a, SkipClass(s, a + 1, Lower) - 1)

\* the places of s where the sentence pass has to break
BreakPlaces(s) ==
  {i \in 1..Len(s) :
     SentenceWordAt(s, i) # 0 /\ WordFrom(s, SentenceWordAt(s, i)) \notin connectors}

C9_ContentStartsAtMarker ==
  (pc = "return" /\ content = NumberedExample) =>
    /\ Len(sections) = 2
    /\ sections[1] = [title |-> <<"S", "u", "m", "m", "a", "r", "y">>,
                      content |-> <<"T", "h", "i", "n", "g", "s", " ", "h", "a", "p", "p", "e", "n", "e", "d", ".">>,
                      key |-> "comprehensive"]
    /\ IsAt(sections[2].content, 1, <<"1", ".">>)

\* C9, amended: the example yields two sections, the first comprehensive /
\* 'Summary' / 'Things happened.'; the marker '1.' opens the second, whose
\* title is 'First point here.' and whose content is what follows that line,
\* '2.' and 'Second point here.'; the split is at the marker offsets.
C9_ExampleSections ==
  (pc = "return" /\ content = NumberedExample) =>
    /\ sections =
         <<[title |-> <<"S", "u", "m", "m", "a", "r", "y">>,
            content |-> <<"T", "h", "i", "n", "g", "s", " ", "h", "a", "p", "p", "e", "n", "e", "d", ".">>,
            key |-> "comprehensive"],
           [title |-> <<"F", "i", "r", "s", "t", " ", "p", "o", "i", "n", "t", " ", "h", "e", "r", "e", ".">>,
            content |-> <<"2", ".", "\n", "\n", "S", "e", "c", "o", "n", "d", " ", "p", "o", "i", "n", "t", " ", "h", "e", "r", "e", ".">>,
            key |-> "other"]>>
    /\ Len(matches) = 2
    /\ matches[1].index = 1
    /\ IsAt(formatted, matches[1].end, <<"T", "h", "i", "n", "g", "s", " ", "h", "a", "p", "p", "e", "n", "e", "d", ".">>)
    /\ IsAt(formatted, matches[2].index, <<"\n", "1", ".">>)
    /\ IsAt(formatted, matches[2].end, <<"\n", "2", ".">>)

\* C9 witness: the example was parsed into two sections
C9_Witness ==
  /\ pc = "return"
  /\ content = NumberedExample
  /\ Len(sections) = 2

(***************************************************************************)
(* processChildren as a state machine: one call on a child, then one call  *)
(* on what the first call returned.                                        *)
(***************************************************************************)
\* the longest sequence of pieces a highlighted text is built from
MaxParts == 4

RefPieces ==
  {<<"(", "A", "r", "t", "i", "c", "l", "e", " ">>, <<"A", "r", "t", "i", "c", "l", "e", " ">>, <<"A", "r", "t", "i", "c", "l", "e", "s", " ">>, <<"3">>, <<")">>, <<" ", "&", " ">>, <<"x", " ">>}
RefTexts ==
  {Concat(ps) : ps \in UNION {[1..n -> RefPieces] : n \in 0..MaxParts}}

ReportedExample == <<"A", "r", "t", "i", "c", "l", "e", " ", "3", " ", "a", "n", "d", " ", "(", "A", "r", "t", "i", "c", "l", "e", " ", "5", ")", " ", "r", "e", "p", "o", "r", "t", "e", "d", " ", "X", ".">>

\* children of an element: strings, elements, nothing, and arrays of them
RefItems ==
  {Str(<<"A", "r", "t", "i", "c", "l", "e", " ", "3">>), Str(<<" ", "a", "n", "d", " ">>), Str(<<"(", "A", "r", "t", "i", "c", "l", "e", " ", "5", ")", " ", "x">>),
   El("strong", NoKey, "", Str(<<"A", "r", "t", "i", "c", "l", "e", " ", "3">>)), Null}
RefArrays ==
  {Arr(items) : items \in UNION {[1..n -> RefItems] : n \in 1..2}}
    \cup {Arr(<<a, Arr(<<b>>)>>) : a \in RefItems, b \in RefItems}

HighlightInputs ==
  {Str(s) : s \in RefTexts \cup {ReportedExample}} \cup RefItems \cup RefArrays

InitHighlight ==
  /\ pc = "call"
  /\ children \in HighlightInputs
  /\ processed = Null /\ reprocessed = Null
  /\ tree = Null /\ rendered = Null
  /\ IdleParse
  /\ IdleDetail
  /\ IdleApp

\* processChildren(children)
Highlight ==
  /\ pc = "call"
  /\ processed' = processChildren(children)
  /\ pc' = "once"
  /\ UNCHANGED <<children, reprocessed, tree, rendered, parseVars, detailVars, appVars>>

\* processChildren(processChildren(children))
HighlightAgain ==
  /\ pc = "once"
  /\ reprocessed' = processChildren(processed)
  /\ pc' = "twice"
  /\ UNCHANGED <<children, processed, tree, rendered, parseVars, detailVars, appVars>>

NextHighlight == Highlight \/ HighlightAgain

SpecHighlight == InitHighlight /\ [][NextHighlight]_vars

(***************************************************************************)
(* Properties of processChildren (checked under SpecHighlight).            *)
(***************************************************************************)
\* the segments processChildren returned for a string: the parts of the
\* array, or the string itself when it was returned as it was
Segments == IF processed.t = "array" THEN processed.items ELSE <<processed>>

IsHighlight(seg) ==
  seg.t = "element" /\ seg.type = "span" /\ seg.className = HighlightClass

\* the text of a segment: of a plain string, or of the string in a span
SegmentText(seg) == IF seg.t = "string" THEN seg.s ELSE seg.children.s

Highlighted(i, s) == El("span", i, HighlightClass, Str(s))

\* the segments are, in order, the input cut in pieces: each highlighted one
\* is one whole match of the pattern, no plain one holds a match
SegmentsCutInput ==
  /\ \A k \in 1..Len(Segments) :
       \/ Segments[k].t = "string" /\ ~ArticleRefTest(Segments[k].s)
       \/ /\ IsHighlight(Segments[k])
          /\ Segments[k].children.t = "string"
          /\ ArticleRefMatch(SegmentText(Segments[k]), 1)
               = Len(SegmentText(Segments[k])) + 1
  /\ Concat([k \in 1..Len(Segments) |-> SegmentText(Segments[k])]) = children.s

\* C6 as stated: for a plain text string, processChildren yields segments
\* whose concatenation is the input, the highlighted ones being exactly the
\* matches of the pattern and the others plain text; for 'Article 3 and
\* (Article 5) reported X.' the segments are highlighted 'Article 3', plain
\* ' and ', highlighted '(Article 5)', plain ' reported X.'
C6_FourSegments ==
  (pc # "call" /\ children.t = "string") =>
    /\ SegmentsCutInput
    /\ children.s = ReportedExample =>
         /\ Len(Segments) = 4
         /\ IsHighlight(Segments[1]) /\ SegmentText(Segments[1]) = <<"A", "r", "t", "i", "c", "l", "e", " ", "3">>
         /\ Segments[2] = Str(<<" ", "a", "n", "d", " ">>)
         /\ IsHighlight(Segments[3]) /\ SegmentText(Segments[3]) = <<"(", "A", "r", "t", "i", "c", "l", "e", " ", "5", ")">>
         /\ Segments[4] = Str(<<" ", "r", "e", "p", "o", "r", "t", "e", "d", " ", "X", ".">>)

\* C6, amended: for a plain text string, processChildren yields segments
\* whose concatenation is the input, the highlighted ones being exactly the
\* matches of the pattern and the others plain text; for 'Article 3 and
\* (Article 5) reported X.' the segments are an empty plain segment,
\* highlighted 'Article 3', plain ' and ', highlighted '(Article 5)', plain
\* ' reported X.'
C6_SegmentsWithLeadingEmpty ==
  (pc # "call" /\ children.t = "string") =>
    /\ SegmentsCutInput
    /\ children.s = ReportedExample =>
         Segments = <<Str(<<>>), Highlighted(1, <<"A", "r", "t", "i", "c", "l", "e", " ", "3">>), Str(<<" ", "a", "n", "d", " ">>),
                      Highlighted(3, <<"(", "A", "r", "t", "i", "c", "l", "e", " ", "5", ")">>), Str(<<" ", "r", "e", "p", "o", "r", "t", "e", "d", " ", "X", ".">>)>>

\* the example has been processed and came back in five parts
C6_Witness ==
  /\ pc = "once"
  /\ children.t = "string"
  /\ children.s = ReportedExample
  /\ Len(Segments) = 5

\* C7: processChildren applied to what it returned gives the same structure
\* back: no match already in a span is wrapped again, and no text changes
C7_Idempotent == pc = "twice" => reprocessed = processed

\* a second call was made on a list of plain strings and highlight spans
C7_Witness ==
  /\ pc = "twice"
  /\ processed.t = "array"
  /\ \E k \in 1..Len(processed.items) : IsHighlight(processed.items[k])
  /\ \E k \in 1..Len(processed.items) : processed.items[k].t = "string"

(***************************************************************************)
(* <ReactMarkdown> on the content of a section, as a state machine: one   *)
(* rendering of one markdown tree.                                         *)
(***************************************************************************)
\* the deepest nesting of bold and italic spans in a tree
MaxDepth == 3

BlockTags == {"p", "li", "h3", "h4"}
SpanTags == {"strong", "em"}
SpanPaths == UNION {[1..n -> SpanTags] : n \in 0..MaxDepth}
LeafTexts == {<<"A", "r", "t", "i", "c", "l", "e", " ", "3">>, <<"s", "e", "e", " ", "(", "A", "r", "t", "i", "c", "l", "e", " ", "5", ")", " ", "x">>, <<"n", "o", "n", "e">>}
SiblingTexts == {<<>>, <<"x", " ">>, <<"A", "r", "t", "i", "c", "l", "e", " ", "7", " ">>}

\* a block holding the text `leaf`, inside inline code if `code`, inside the
\* spans of `spans` (outermost first), between two texts `sib` if not empty
Tree(block, spans, code, leaf, sib) ==
  LET wrap[k \in 0..Len(spans)] ==
        IF k = 0
        THEN (IF code THEN Node("code", <<Text(leaf)>>) ELSE Text(leaf))
        ELSE Node(spans[Len(spans) - k + 1], <<wrap[k - 1]>>)
      inner == wrap[Len(spans)]
  IN  Node(block,
           IF sib = <<>> THEN <<inner>>
           ELSE IF inner.t = "text" THEN <<Text(sib \o inner.s \o sib)>>
           ELSE <<Text(sib), inner, Text(sib)>>)

Trees ==
  {Tree(block, spans, code, leaf, sib) :
     block \in BlockTags, spans \in SpanPaths, code \in BOOLEAN,
     leaf \in LeafTexts, sib \in SiblingTexts}

InitRender ==
  /\ pc = "render"
  /\ tree \in Trees
  /\ rendered = Null
  /\ children = Null /\ processed = Null /\ reprocessed = Null
  /\ IdleParse
  /\ IdleDetail
  /\ IdleApp

\* <ReactMarkdown components={markdownComponents}>{section.content}</ReactMarkdown>
RenderMarkdown ==
  /\ pc = "render"
  /\ rendered' = RenderNode(tree)
  /\ pc' = "rendered"
  /\ UNCHANGED <<tree, children, processed, reprocessed, parseVars, detailVars, appVars>>

NextRender == RenderMarkdown

SpecRender == InitRender /\ [][NextRender]_vars

(***************************************************************************)
(* Properties of the rendered markdown (checked under SpecRender).         *)
(***************************************************************************)
\* no string of r outside a highlight span holds an article reference
RECURSIVE AllMentionsHighlighted(_)
AllMentionsHighlighted(r) ==
  IF r.t = "string" THEN ~ArticleRefTest(r.s)
  ELSE IF r.t = "array"
  THEN \A k \in 1..Len(r.items) : AllMentionsHighlighted(r.items[k])
  ELSE IF r.t = "element"
  THEN (r.type = "span" /\ r.className = HighlightClass)
         \/ AllMentionsHighlighted(r.children)
  ELSE TRUE

\* the text of r, highlight spans taken for their text
RECURSIVE RenderedText(_)
RenderedText(r) ==
  IF r.t = "string" THEN r.s
  ELSE IF r.t = "array"
  THEN Concat([k \in 1..Len(r.items) |-> RenderedText(r.items[k])])
  ELSE IF r.t = "element" THEN RenderedText(r.children)
  ELSE <<>>

\* r is the node n rendered: the same tags with as many children in the
\* same order, each text given as a string or cut in plain and highlighted
\* pieces, a text without a reference given as it is
RECURSIVE KeepsStructure(_, _)
KeepsStructure(n, r) ==
  IF n.t = "text"
  THEN /\ RenderedText(r) = n.s
       /\ ~ArticleRefTest(n.s) => r = Str(n.s)
       /\ r.t = "string"
            \/ (r.t = "array" /\ \A k \in 1..Len(r.items) :
                  r.items[k].t = "string" \/ (r.items[k].type = "span"
                                               /\ r.items[k].children.t = "string"))
  ELSE /\ r.t = "element" /\ r.type = n.tag
       /\ r.children.t = "array"
       /\ Len(r.children.items) = Len(n.kids)
       /\ \A k \in 1..Len(n.kids) : KeepsStructure(n.kids[k], r.children.items[k])

\* C8 as stated: article references are highlighted wherever they occur in
\* the rendered text of a section, also inside nested bold, italic and
\* inline-code spans, and the siblings keep their number and order, text
\* without a reference and formatting being left as they were
C8_HighlightedEverywhere ==
  pc = "rendered" =>
    AllMentionsHighlighted(rendered) /\ KeepsStructure(tree, rendered)

\* what does hold of the rendering: the structure is kept
StructureKept == pc = "rendered" => KeepsStructure(tree, rendered)

(***************************************************************************)
(* NewspaperDetail as a state machine: the newspaper arrives, its summary  *)
(* is shown in sections, and the section buttons are clicked.              *)
(***************************************************************************)
\* the most sections a summary is built from, and the most clicks followed
MaxSections == 3
MaxClicks == 3

SectionBlocks ==
  {<<"#", "#", " ", "S", "u", "m", "m", "a", "r", "y", "\n", "x", "\n">>, <<"#", "#", " ", "C", "o", "n", "t", "e", "x", "t", "\n", "x", "\n">>, <<"#", "#", " ", "W", "h", "y", " ", "i", "t", " ", "m", "a", "t", "t", "e", "r", "s", "\n", "x", "\n">>,
   <<"#", "#", " ", "R", "e", "l", "a", "t", "e", "d", "\n", "x", "\n">>, <<"#", "#", " ", "N", "e", "w", "s", "\n", "x", "\n">>, <<"1", ".", " ", "S", "u", "m", "m", "a", "r", "y", "\n", "x", "\n">>}
DetailInputs ==
  {Concat(bs) : bs \in UNION {[1..n -> SectionBlocks] : n \in 0..MaxSections}}
    \cup {<<"N", "o", " ", "h", "e", "a", "d", "i", "n", "g", "s", " ", "h", "e", "r", "e", ".">>}

\* const isExpanded = expandedSections.has(section.key)
isExpanded(section) == section.key \in expandedSections

Init ==
  /\ pc = "loading"
  /\ expandedSections = initialExpandedSections
  /\ clicks = 0
  /\ IdleParse
  /\ IdleHighlight
  /\ IdleApp

\* useQuery returns the newspaper, which has a summary entry: the sections
\* of parseSummary(summaryEntry[1].content) are rendered
Load ==
  /\ pc = "loading"
  /\ \E c \in DetailInputs :
       /\ content' = c
       /\ formatted' = Format(c)
       /\ matches' = MatchAll(formatted')
       /\ sections' = parseSummary(c)
  /\ pc' = "shown"
  /\ UNCHANGED <<expandedSections, clicks, highlightVars, appVars>>

\* useQuery returns a newspaper without a summary entry: no section is
\* rendered ("No summary available")
LoadWithoutSummary ==
  /\ pc = "loading"
  /\ pc' = "shown"
  /\ UNCHANGED <<parseVars, expandedSections, clicks, highlightVars, appVars>>

\* onClick={() => toggleSection(section.key)} on the button of a section
toggleSection(sectionKey) ==
  /\ expandedSections' =
       IF sectionKey \in expandedSections
       THEN expandedSections \ {sectionKey}
       ELSE expandedSections \cup {sectionKey}

ClickSection ==
  /\ pc = "shown"
  /\ clicks < MaxClicks
  /\ \E i \in 1..Len(sections) : toggleSection(sections[i].key)
  /\ clicks' = clicks + 1
  /\ UNCHANGED <<pc, parseVars, highlightVars, appVars>>

Next == Load \/ LoadWithoutSummary \/ ClickSection

Spec == Init /\ [][Next]_vars

(***************************************************************************)
(* Properties of the detail view (checked under Spec).                     *)
(***************************************************************************)
\* C10: when the detail view is first shown, a section is expanded if and
\* only if its key is 'comprehensive'; every other section starts collapsed
C10_InitiallyExpanded ==
  (pc = "shown" /\ clicks = 0) =>
    \A i \in 1..Len(sections) :
      isExpanded(sections[i]) <=> sections[i].key = "comprehensive"

\* a summary with a comprehensive section and another one is first shown
C10_Witness ==
  /\ pc = "shown"
  /\ clicks = 0
  /\ \E i, j \in 1..Len(sections) :
       /\ sections[i].key = "comprehensive" /\ isExpanded(sections[i])
       /\ sections[j].key # "comprehensive" /\ ~isExpanded(sections[j])

\* the expanded state of section i changes in the step
ExpandedChanged(i) ==
  (sections[i].key \in expandedSections') # (sections[i].key \in expandedSections)

\* C11: for every pair of distinct sections of the rendered sequence, a
\* click that toggles one of them leaves the expanded state of the other
\* unchanged, after any sequence of toggles
C11_TogglesIndependent ==
  [][(pc = "shown" /\ clicks' = clicks + 1) =>
       \A i, j \in 1..Len(sections) :
         (i # j /\ ExpandedChanged(i)) => ~ExpandedChanged(j)]_vars

(***************************************************************************)
(* Properties of the normalization (checked under SpecParse).              *)
(***************************************************************************)
\* the number of places of s where a run of line breaks starts
BreakRuns(s) ==
  Cardinality({i \in 1..Len(s) : s[i] = NL /\ (i = 1 \/ s[i - 1] # NL)})

\* position i of s stands beside a backslash: only whitespace and
\* backslashes lie between i and some backslash of s
BesideBackslash(s, i) ==
  \E j \in 1..Len(s) :
    /\ s[j] = BS
    /\ \A k \in (IF i < j THEN i ELSE j)..(IF i < j THEN j ELSE i) :
         s[k] \in Whitespace \cup {BS}

\* a run of line breaks starts at i of s, a carriage return before a line
\* break being part of the break
RunStart(s, i) ==
  /\ s[i] = NL
  /\ ~(i > 1 /\ s[i - 1] = NL)
  /\ ~(i > 2 /\ s[i - 1] = CR /\ s[i - 2] = NL)

\* s with each backslash followed by 'n' read as one line break
Unescaped(s) ==
  LET from[p \in 1..(Len(s) + 1)] ==
        IF p > Len(s) THEN <<>>
        ELSE IF s[p] = BS /\ p < Len(s) /\ s[p + 1] = "n"
          THEN <<NL>> \o from[p + 2]
        ELSE <<s[p]>> \o from[p + 1]
  IN  from[1]

\* the text holds no line break and no carriage return of its own
OnlyEscapedBreaks(s) == \A i \in 1..Len(s) : s[i] \notin {NL, CR}

NoLongRun(s) ==
  \A i \in 1..(Len(s) - 2) : ~(s[i] = NL /\ s[i + 1] = NL /\ s[i + 2] = NL)

\* the lengths of the runs of line breaks of s, in order
RunLengths(s) ==
  LET from[p \in 1..(Len(s) + 1)] ==
        IF p > Len(s) THEN <<>>
        ELSE IF s[p] = NL
          THEN <<SkipClass(s, p, {NL}) - p>> \o from[SkipClass(s, p, {NL})]
        ELSE from[p + 1]
  IN  from[1]

\* the text the collapse of the runs is applied to: the escaped newlines
\* and the CRLF pairs are line breaks in it
BeforeCollapse(s) == AfterPasses(s, 4)

\* C13: the normalized text has no run of three or more line breaks: every
\* such run, also one made of converted escaped newlines or CRLF pairs,
\* becomes exactly two line breaks (shorter runs stay), and no later
\* paragraph-break pass brings a run of three or more back
C13_NoLongRuns ==
  pc = "return" =>
    /\ NoLongRun(Normalized(content))
    /\ RunLengths(Normalized(content))
         = [k \in 1..Len(RunLengths(BeforeCollapse(content))) |->
              IF RunLengths(BeforeCollapse(content))[k] >= 3 THEN 2
              ELSE RunLengths(BeforeCollapse(content))[k]]
    /\ NoLongRun(formatted)

\* a run of three breaks made of escaped newlines or of CRLF pairs has been
\* collapsed
C13_Witness ==
  /\ pc = "return"
  /\ OnlyEscapedBreaks(content) \/ Includes(content, <<CR, NL, CR, NL, CR, NL>>)
  /\ \E k \in 1..Len(RunLengths(BeforeCollapse(content))) :
       RunLengths(BeforeCollapse(content))[k] >= 3
  /\ 2 \in {RunLengths(formatted)[k] : k \in 1..Len(RunLengths(formatted))}

\* a paragraph-break pass has put its two line breaks where line breaks
\* already stood
C13_WitnessLaterPass ==
  /\ pc = "return"
  /\ formatted # Normalized(content)
  /\ Includes(Normalized(content), <<NL, NL>>)

\* the characters of the texts
Chars ==
  Upper \cup Lower \cup Digit \cup Punct \cup Whitespace
    \cup {BS, "#", ":", "(", ")", "&", "'"}
SectionKeys == {"comprehensive", "context", "meaning", "related", "other"}

\* v is a string: a sequence of characters
IsString(v) == DOMAIN v = 1..Len(v) /\ \A i \in 1..Len(v) : v[i] \in Chars

\* C14: parseSummary is total: for every string, the empty one, those with
\* no heading and those with malformed or partial heading markers included,
\* the call goes through (every title it reads is a captured, non-empty
\* string) and returns at least one section, each with a title, a content
\* and a key; for the empty string it returns exactly one section, keyed
\* 'comprehensive'
C14_Total ==
  pc = "return" =>
    /\ Len(sections) >= 1
    /\ \A i \in 1..Len(matches) :
         /\ matches[i].titleStart >= 1
         /\ matches[i].titleEnd > matches[i].titleStart
         /\ matches[i].titleEnd <= Len(formatted) + 1
    /\ \A i \in 1..Len(sections) :
         /\ DOMAIN sections[i] = {"title", "content", "key"}
         /\ IsString(sections[i].title)
         /\ IsString(sections[i].content)
         /\ sections[i].key \in SectionKeys
    /\ content = <<>> =>
         Len(sections) = 1 /\ sections[1].key = "comprehensive"

\* the empty string has been parsed
C14_Witness ==
  /\ pc = "return"
  /\ content = <<>>
  /\ sections = <<FallbackSection(<<>>)>>

\* a text with a partial heading marker has been parsed into the fallback
C14_WitnessPartialMarker ==
  /\ pc = "return"
  /\ content = <<"#", "#", " ">>
  /\ Len(sections) = 1

(***************************************************************************)
(* QueryInput: the form and handleSubmit, whose awaits cut it in steps.    *)
(***************************************************************************)
\* the most documents the table is let grow to by submissions
MaxRecords == 2

DigitSeq == <<"0", "1", "2", "3", "4", "5", "6", "7", "8", "9">>

\* `${n}` for a number n >= 0
Decimal(n) ==
  LET dec[k \in 0..n] ==
        IF k < 10 THEN <<DigitSeq[k + 1]>>
        ELSE dec[k \div 10] \o <<DigitSeq[(k % 10) + 1]>>
  IN  dec[n]

\* what the user types
Queries == {<<>>, <<" ">>, <<"a", "i">>}
UserNames == {<<>>, <<" ">>, <<" ", "A", "l", " ">>}

\* what the backend answers
ArticleN1 == [headline |-> <<"N", "1">>, summary |-> <<"n", "1", ".">>, url |-> <<"n", "y", "t", "/", "1">>]
ArticleN2 == [headline |-> <<"N", "2">>, summary |-> <<"n", "2", ".">>, url |-> <<"n", "y", "t", "/", "2">>]
ArticleW1 == [headline |-> <<"W", "1">>, summary |-> <<"w", "1", ".">>, url |-> <<"w", "p", "/", "1">>]
NYTResponses ==
  {[articles |-> <<>>], [articles |-> <<ArticleN1>>],
   [articles |-> <<ArticleN1, ArticleN2>>]}
WashPostResponses == {[articles |-> <<>>], [articles |-> <<ArticleW1>>]}
SummarizeResponses == {[summary |-> <<"#", "#", " ", "S", "u", "m", "m", "a", "r", "y", "\n", "S", ".">>]}
StatusText == <<"B", "a", "d", " ", "G", "a", "t", "e", "w", "a", "y">>

\* throw new Error(`... failed: ${response.statusText}`), and a mutation
\* that the server rejects
ErrorMessage(name) ==
  CASE name = "searchNYT" -> <<"N", "Y", "T", " ", "s", "e", "a", "r", "c", "h", " ", "f", "a", "i", "l", "e", "d", ":", " ">> \o StatusText
    [] name = "searchWashPost" -> <<"W", "a", "s", "h", "i", "n", "g", "t", "o", "n", " ", "P", "o", "s", "t", " ", "s", "e", "a", "r", "c", "h", " ", "f", "a", "i", "l", "e", "d", ":", " ">> \o StatusText
    [] name = "summarizeArticles" -> <<"S", "u", "m", "m", "a", "r", "i", "z", "e", " ", "f", "a", "i", "l", "e", "d", ":", " ">> \o StatusText
    [] OTHER -> <<"S", "e", "r", "v", "e", "r", " ", "E", "r", "r", "o", "r">>

SearchingNYT == <<"S", "e", "a", "r", "c", "h", "i", "n", "g", " ", "N", "e", "w", " ", "Y", "o", "r", "k", " ", "T", "i", "m", "e", "s", ".", ".", ".">>
SearchingWashPost == <<"S", "e", "a", "r", "c", "h", "i", "n", "g", " ", "W", "a", "s", "h", "i", "n", "g", "t", "o", "n", " ", "P", "o", "s", "t", ".", ".", ".">>
Analyzing(n) == <<"A", "n", "a", "l", "y", "z", "i", "n", "g", " ">> \o Decimal(n) \o <<" ", "a", "r", "t", "i", "c", "l", "e", "s", " ", "w", "i", "t", "h", " ", "A", "I", ".", ".", ".">>
CreatingNewspaper == <<"C", "r", "e", "a", "t", "i", "n", "g", " ", "y", "o", "u", "r", " ", "n", "e", "w", "s", "p", "a", "p", "e", "r", ".", ".", ".">>
NoArticlesFound == <<"N", "o", " ", "a", "r", "t", "i", "c", "l", "e", "s", " ", "f", "o", "u", "n", "d", ".", " ", "P", "l", "e", "a", "s", "e", " ", "t", "r", "y", " ", "a", " ", "d", "i", "f", "f", "e", "r", "e", "n", "t", " ", "q", "u", "e", "r", "y", ".">>
SummaryKey == <<"0", "_", "s", "u", "m", "m", "a", "r", "y">>
SummaryHeadline(q) == <<"C", "o", "m", "p", "r", "e", "h", "e", "n", "s", "i", "v", "e", " ", "A", "n", "a", "l", "y", "s", "i", "s", ":", " ">> \o q

\* newspapers[key] = value on an object given as its entries, in the order
\* the keys were first set
SetEntry(entries, key, value) ==
  IF \E k \in 1..Len(entries) : entries[k].key = key
  THEN [k \in 1..Len(entries) |->
          IF entries[k].key = key THEN [key |-> key, value |-> value]
          ELSE entries[k]]
  ELSE Append(entries, [key |-> key, value |-> value])

\* the entry of the article at index (from 0) of allArticles
ArticleEntry(article) ==
  [link |-> article.url, content |-> article.summary, headline |-> article.headline]

\* the record assembly with every article stored under the key 'article'
NewspapersOneKey(q, articles, summary) ==
  LET with[n \in 0..Len(articles)] ==
        IF n = 0
        THEN <<[key |-> SummaryKey,
                value |-> [link |-> <<>>, content |-> summary,
                           headline |-> SummaryHeadline(q)]]>>
        ELSE SetEntry(with[n - 1], <<"a", "r", "t", "i", "c", "l", "e">>, ArticleEntry(articles[n]))
  IN  with[Len(articles)]

\* const newspapers = {}; newspapers["0_summary"] = ...;
\* allArticles.forEach((article, index) => newspapers[`article${index + 1}`] = ...)
Newspapers(q, articles, summary) ==
  LET with[n \in 0..Len(articles)] ==
        IF n = 0
        THEN <<[key |-> SummaryKey,
                value |-> [link |-> <<>>, content |-> summary,
                           headline |-> SummaryHeadline(q)]]>>
        ELSE SetEntry(with[n - 1], <<"a", "r", "t", "i", "c", "l", "e">> \o Decimal(n),
                      ArticleEntry(articles[n]))
  IN  with[Len(articles)]

\* const headlines = []; headlines.push(...)
Headlines(q, articles) ==
  <<SummaryHeadline(q)>> \o [n \in 1..Len(articles) |-> articles[n].headline]

\* the arguments of the createNewspaper call of handleSubmit
CreateArgs(c, articles, summary) ==
  [query |-> c.query,
   newspapers |-> Newspapers(c.query, articles, summary),
   articleCount |-> Len(articles),
   headlines |-> Headlines(c.query, articles),
   userName |-> IF c.showNameInput /\ Trim(c.userName) # <<>>
                THEN Some(Trim(c.userName)) ELSE None,
   isPublic |-> c.includeInDatabase]

Call(name, args) == [name |-> name, args |-> args]

\* finally { setIsLoading(false); setLoadingStatus(""); ... }
Finally ==
  /\ isLoading' = FALSE
  /\ loadingStatus' = <<>>
  /\ buildingArticles' = <<>>
  /\ buildingSummary' = <<>>

otherVars == <<parseVars, highlightVars, detailVars>>

\* a document an earlier submission stored in the shared table
ExistingDocument ==
  Document(CreateArgs([query |-> <<"e", "u">>, userName |-> <<"B", "o">>,
                       showNameInput |-> TRUE, includeInDatabase |-> TRUE],
                      <<ArticleW1>>, <<"S", ".">>),
           1, 1)

InitSubmit ==
  /\ pc = "idle"
  /\ IdleForm
  /\ IdleChain
  /\ db = <<ExistingDocument>> /\ now = 1 /\ result = Null
  /\ IdleParse
  /\ IdleHighlight
  /\ IdleDetail

\* <textarea onChange={(e) => setQuery(e.target.value)} disabled={isLoading}>
SetQuery ==
  /\ ~isLoading
  /\ \E q \in Queries : query' = q
  /\ UNCHANGED <<pc, userName, includeInDatabase, showNameInput, isLoading,
                 loadingStatus, buildingArticles, buildingSummary,
                 createdNewspaperId, chainVars, storeVars, otherVars>>

\* {showNameInput && <input onChange={(e) => setUserName(e.target.value)}>}
SetUserName ==
  /\ showNameInput
  /\ \E u \in UserNames : userName' = u
  /\ UNCHANGED <<pc, query, includeInDatabase, showNameInput, isLoading,
                 loadingStatus, buildingArticles, buildingSummary,
                 createdNewspaperId, chainVars, storeVars, otherVars>>

\* the Share toggle flipping includeInDatabase and leaving the name input
ToggleShareKeepsName ==
  /\ includeInDatabase' = ~includeInDatabase
  /\ showNameInput' = showNameInput
  /\ UNCHANGED <<pc, query, userName, isLoading, loadingStatus,
                 buildingArticles, buildingSummary, createdNewspaperId,
                 chainVars, storeVars, otherVars>>

\* the Share toggle: onClick
ToggleShare ==
  /\ includeInDatabase' = ~includeInDatabase
  /\ showNameInput' = IF includeInDatabase THEN FALSE ELSE TRUE
  /\ UNCHANGED <<pc, query, userName, isLoading, loadingStatus,
                 buildingArticles, buildingSummary, createdNewspaperId,
                 chainVars, storeVars, otherVars>>

\* handleCloseNewspaper, from the detail view shown for createdNewspaperId
handleCloseNewspaper ==
  /\ createdNewspaperId # None
  /\ createdNewspaperId' = None
  /\ UNCHANGED <<pc, query, userName, includeInDatabase, showNameInput,
                 isLoading, loadingStatus, buildingArticles, buildingSummary,
                 chainVars, storeVars, otherVars>>

\* handleSubmit starting both searches at once
SubmitBothSearches ==
  /\ ~isLoading
  /\ Trim(query) # <<>>
  /\ Len(db) < MaxRecords
  /\ isLoading' = TRUE
  /\ buildingArticles' = <<>>
  /\ buildingSummary' = <<>>
  /\ loadingStatus' = SearchingNYT
  /\ closure' = [query |-> query, userName |-> userName,
                 showNameInput |-> showNameInput,
                 includeInDatabase |-> includeInDatabase]
  /\ nytResponse' = Null
  /\ allArticles' = <<>>
  /\ inFlight' = {"searchNYT", "searchWashPost"}
  /\ calls' = <<Call("searchNYT", [query |-> query])>>
  /\ alerts' = <<>>
  /\ dbAtSubmit' = db
  /\ pc' = "searchNYT"
  /\ UNCHANGED <<query, userName, includeInDatabase, showNameInput,
                 createdNewspaperId, storeVars, otherVars>>

\* handleSubmit entered whatever isLoading is
SubmitWhileLoading ==
  /\ isLoading \in BOOLEAN
  /\ Trim(query) # <<>>
  /\ Len(db) < MaxRecords
  /\ isLoading' = TRUE
  /\ buildingArticles' = <<>>
  /\ buildingSummary' = <<>>
  /\ loadingStatus' = SearchingNYT
  /\ closure' = [query |-> query, userName |-> userName,
                 showNameInput |-> showNameInput,
                 includeInDatabase |-> includeInDatabase]
  /\ nytResponse' = Null
  /\ allArticles' = <<>>
  /\ inFlight' = {"searchNYT"}
  /\ calls' = <<Call("searchNYT", [query |-> query])>>
  /\ alerts' = <<>>
  /\ dbAtSubmit' = db
  /\ pc' = "searchNYT"
  /\ UNCHANGED <<query, userName, includeInDatabase, showNameInput,
                 createdNewspaperId, storeVars, otherVars>>

\* handleSubmit, up to `await searchNYT({ query })`.  A submit event reaches
\* it from the submit button (disabled={isLoading || !query.trim()}), from
\* the shortcut (!isLoading && query.trim()), or from Enter in the name
\* input, which submits through the same button
Submit ==
  /\ ~isLoading
  /\ Trim(query) # <<>>
  /\ Len(db) < MaxRecords
  /\ isLoading' = TRUE
  /\ buildingArticles' = <<>>
  /\ buildingSummary' = <<>>
  /\ loadingStatus' = SearchingNYT
  /\ closure' = [query |-> query, userName |-> userName,
                 showNameInput |-> showNameInput,
                 includeInDatabase |-> includeInDatabase]
  /\ nytResponse' = Null
  /\ allArticles' = <<>>
  /\ inFlight' = {"searchNYT"}
  /\ calls' = <<Call("searchNYT", [query |-> query])>>
  /\ alerts' = <<>>
  /\ dbAtSubmit' = db
  /\ pc' = "searchNYT"
  /\ UNCHANGED <<query, userName, includeInDatabase, showNameInput,
                 createdNewspaperId, storeVars, otherVars>>

\* searchNYT returns: up to `await searchWashPost({ query })`
SearchNYTReturns ==
  /\ pc = "searchNYT"
  /\ \E r \in NYTResponses :
       /\ nytResponse' = r
       /\ buildingArticles' = r.articles
  /\ loadingStatus' = SearchingWashPost
  /\ inFlight' = (inFlight \ {"searchNYT"}) \cup {"searchWashPost"}
  /\ calls' = Append(calls, Call("searchWashPost", [query |-> closure.query]))
  /\ pc' = "searchWashPost"
  /\ UNCHANGED <<query, userName, includeInDatabase, showNameInput, isLoading,
                 buildingSummary, createdNewspaperId, closure, allArticles,
                 alerts, dbAtSubmit, storeVars, otherVars>>

\* searchWashPost returns and the chain goes on to summarizeArticles,
\* whether or not an article was found
SearchWashPostReturnsNoCheck ==
  /\ pc = "searchWashPost"
  /\ \E r \in WashPostResponses :
       allArticles' = nytResponse.articles \o r.articles
  /\ buildingArticles' = allArticles'
  /\ loadingStatus' = Analyzing(Len(allArticles'))
  /\ inFlight' = (inFlight \ {"searchWashPost"}) \cup {"summarizeArticles"}
  /\ calls' = Append(calls, Call("summarizeArticles",
                       [query |-> closure.query, articles |-> allArticles']))
  /\ pc' = "summarizeArticles"
  /\ UNCHANGED <<isLoading, buildingSummary, alerts>>
  /\ UNCHANGED <<query, userName, includeInDatabase, showNameInput,
                 createdNewspaperId, closure, nytResponse, dbAtSubmit,
                 storeVars, otherVars>>

\* searchWashPost returns: the early return when no article was found, or
\* up to `await summarizeArticles({ query, articles: allArticles })`
SearchWashPostReturns ==
  /\ pc = "searchWashPost"
  /\ \E r \in WashPostResponses :
       allArticles' = nytResponse.articles \o r.articles
  /\ IF Len(allArticles') = 0
     THEN /\ alerts' = Append(alerts, NoArticlesFound)
          /\ Finally
          /\ inFlight' = inFlight \ {"searchWashPost"}
          /\ calls' = calls
          /\ pc' = "idle"
     ELSE /\ buildingArticles' = allArticles'
          /\ loadingStatus' = Analyzing(Len(allArticles'))
          /\ inFlight' = (inFlight \ {"searchWashPost"}) \cup {"summarizeArticles"}
          /\ calls' = Append(calls, Call("summarizeArticles",
                               [query |-> closure.query, articles |-> allArticles']))
          /\ pc' = "summarizeArticles"
          /\ UNCHANGED <<isLoading, buildingSummary, alerts>>
  /\ UNCHANGED <<query, userName, includeInDatabase, showNameInput,
                 createdNewspaperId, closure, nytResponse, dbAtSubmit,
                 storeVars, otherVars>>

\* summarizeArticles returns: the record assembly, up to
\* `await createNewspaper({...})`
SummarizeReturns ==
  /\ pc = "summarizeArticles"
  /\ \E r \in SummarizeResponses :
       /\ buildingSummary' = r.summary
       /\ calls' = Append(calls, Call("createNewspaper",
                            CreateArgs(closure, allArticles, r.summary)))
  /\ loadingStatus' = CreatingNewspaper
  /\ inFlight' = (inFlight \ {"summarizeArticles"}) \cup {"createNewspaper"}
  /\ pc' = "createNewspaper"
  /\ UNCHANGED <<query, userName, includeInDatabase, showNameInput, isLoading,
                 buildingArticles, createdNewspaperId, closure, nytResponse,
                 allArticles, alerts, dbAtSubmit, storeVars, otherVars>>

\* the mutation createNewspaper runs and returns the new identifier: the
\* rest of the try block, then finally
CreateNewspaperReturns ==
  /\ pc = "createNewspaper"
  /\ \E t \in DateNow :
       /\ now' = t
       /\ db' = Insert(db, calls[Len(calls)].args, t)
  /\ query' = <<>>
  /\ userName' = <<>>
  /\ createdNewspaperId' = Some(Len(db'))
  /\ Finally
  /\ inFlight' = inFlight \ {"createNewspaper"}
  /\ pc' = "idle"
  /\ UNCHANGED <<includeInDatabase, showNameInput, closure, nytResponse,
                 allArticles, calls, alerts, dbAtSubmit, result, otherVars>>

\* a failed call that is made again instead of ending the submission
CallThrowsRetry ==
  /\ pc \in {"searchNYT", "searchWashPost", "summarizeArticles", "createNewspaper"}
  /\ Len(calls) < 6
  /\ calls' = Append(calls, calls[Len(calls)])
  /\ UNCHANGED <<pc, query, userName, includeInDatabase, showNameInput, isLoading,
                 loadingStatus, buildingArticles, buildingSummary,
                 createdNewspaperId, closure, nytResponse, allArticles, inFlight,
                 alerts, dbAtSubmit, storeVars, otherVars>>

\* a failed call after which the form is cleared as after a success
CallThrowsClearsForm ==
  /\ pc \in {"searchNYT", "searchWashPost", "summarizeArticles", "createNewspaper"}
  /\ alerts' = Append(alerts, <<"E", "r", "r", "o", "r", ":", " ">> \o ErrorMessage(pc))
  /\ Finally
  /\ query' = <<>>
  /\ userName' = <<>>
  /\ inFlight' = inFlight \ {pc}
  /\ pc' = "idle"
  /\ UNCHANGED <<includeInDatabase, showNameInput,
                 createdNewspaperId, closure, nytResponse, allArticles,
                 calls, dbAtSubmit, storeVars, otherVars>>

\* a failed call whose alert is shown without the finally block after it
CallThrowsNoFinally ==
  /\ pc \in {"searchNYT", "searchWashPost", "summarizeArticles", "createNewspaper"}
  /\ alerts' = Append(alerts, <<"E", "r", "r", "o", "r", ":", " ">> \o ErrorMessage(pc))
  /\ inFlight' = inFlight \ {pc}
  /\ pc' = "idle"
  /\ UNCHANGED <<query, userName, includeInDatabase, showNameInput, isLoading,
                 loadingStatus, buildingArticles, buildingSummary,
                 createdNewspaperId, closure, nytResponse, allArticles,
                 calls, dbAtSubmit, storeVars, otherVars>>

\* the call awaited throws: catch (one alert), then finally
CallThrows ==
  /\ pc \in {"searchNYT", "searchWashPost", "summarizeArticles", "createNewspaper"}
  /\ alerts' = Append(alerts, <<"E", "r", "r", "o", "r", ":", " ">> \o ErrorMessage(pc))
  /\ Finally
  /\ inFlight' = inFlight \ {pc}
  /\ pc' = "idle"
  /\ UNCHANGED <<query, userName, includeInDatabase, showNameInput,
                 createdNewspaperId, closure, nytResponse, allArticles,
                 calls, dbAtSubmit, storeVars, otherVars>>

NextSubmit ==
  \/ SetQuery \/ SetUserName \/ ToggleShare \/ handleCloseNewspaper
  \/ Submit \/ SearchNYTReturns \/ SearchWashPostReturns \/ SummarizeReturns
  \/ CreateNewspaperReturns \/ CallThrows

SpecSubmit == InitSubmit /\ [][NextSubmit]_vars

\* an outbound call that was started returns or throws
CallEnds ==
  \/ SearchNYTReturns \/ SearchWashPostReturns \/ SummarizeReturns
  \/ CreateNewspaperReturns \/ CallThrows

\* QueryInput when every outbound call eventually returns or throws
SpecSubmitLive == SpecSubmit /\ WF_vars(CallEnds)

(***************************************************************************)
(* Properties of a submission (checked under SpecSubmit).                  *)
(***************************************************************************)
ChainOrder == <<"searchNYT", "searchWashPost", "summarizeArticles", "createNewspaper">>

C16_FailureAborts ==
  [][ /\ (CallThrows /\ pc # "createNewspaper") =>
           /\ pc' = "idle"
           /\ inFlight' = {}
           /\ calls' = calls
           /\ \A k \in 1..Len(calls') : calls'[k].name # "createNewspaper"
           /\ \A j, k \in 1..Len(calls') : calls'[j].name = calls'[k].name => j = k
           /\ Len(alerts') = 1
           /\ db' = dbAtSubmit
      /\ (pc = "idle" /\ ~Submit) => (calls' = calls /\ db' = db /\ pc' = "idle")
    ]_vars

\* summarizeArticles has failed after both searches returned articles: three
\* calls were made, one alert with the error is on screen, the form is idle
C16_Witness ==
  /\ pc = "idle"
  /\ Len(calls) = 3
  /\ calls[3].name = "summarizeArticles"
  /\ alerts = << <<"E", "r", "r", "o", "r", ":", " ">> \o ErrorMessage("summarizeArticles") >>
  /\ ~isLoading
  /\ db = dbAtSubmit

\* the key `article${i}` for i below ten
ArticleKey(i) ==
  <<"a", "r", "t", "i", "c", "l", "e">> \o <<(<<"1", "2", "3", "4", "5", "6", "7", "8", "9">>)[i]>>

CreateCalls == {k \in 1..Len(calls) : calls[k].name = "createNewspaper"}

\* the entries of a newspapers mapping stored under a key
EntriesAt(newspapers, key) ==
  {k \in 1..Len(newspapers) : newspapers[k].key = key}

\* C17: a submission makes at most one createNewspaper call, and only with
\* n >= 1 collected articles (the NYT articles followed by the Washington
\* Post ones); the call's newspapers mapping has exactly n+1 entries, one
\* under '0_summary' whose content is the summarizer's text and one under
\* 'article<i>' for each i in 1..n holding link, content and headline of the
\* i-th article; articleCount is n; headlines is the summary headline followed
\* by the n article headlines; a submission that stored a record made exactly
\* one such call and stored exactly one record
C17_RecordAssembly ==
  /\ Cardinality(CreateCalls) <= 1
  /\ \A k \in CreateCalls :
       LET args == calls[k].args
           n == Len(allArticles)
       IN  /\ n >= 1
           /\ \E w \in WashPostResponses :
                allArticles = nytResponse.articles \o w.articles
           /\ Len(args.newspapers) = n + 1
           /\ \E e \in EntriesAt(args.newspapers, SummaryKey) :
                /\ EntriesAt(args.newspapers, SummaryKey) = {e}
                /\ args.newspapers[e].value.content \in {r.summary : r \in SummarizeResponses}
                /\ args.newspapers[e].value.content = buildingSummary \/ pc = "idle"
           /\ \A i \in 1..n :
                \E e \in EntriesAt(args.newspapers, ArticleKey(i)) :
                  /\ EntriesAt(args.newspapers, ArticleKey(i)) = {e}
                  /\ args.newspapers[e].value =
                       [link |-> allArticles[i].url,
                        content |-> allArticles[i].summary,
                        headline |-> allArticles[i].headline]
           /\ args.articleCount = n
           /\ Len(args.headlines) = n + 1
           /\ args.headlines[1] =
                <<"C", "o", "m", "p", "r", "e", "h", "e", "n", "s", "i", "v", "e", " ", "A", "n", "a", "l", "y", "s", "i", "s", ":", " ">> \o calls[1].args.query
           /\ \A i \in 1..n : args.headlines[i + 1] = allArticles[i].headline
  /\ (calls # <<>> /\ db # dbAtSubmit) =>
       /\ Cardinality(CreateCalls) = 1
       /\ Len(db) = Len(dbAtSubmit) + 1

\* a submission that collected two NYT articles and one Washington Post
\* article has stored its record
C17_Witness ==
  /\ pc = "idle"
  /\ db # dbAtSubmit
  /\ Len(allArticles) = 3
  /\ Len(db[Len(db)].newspapers) = 4
  /\ db[Len(db)].articleCount = 3

(***************************************************************************)
(* The Convex functions called in any order by any client: SpecStore.      *)
(***************************************************************************)
\* the most createNewspaper calls made on a table
MaxInserts == 3

\* a table that already holds one public document less than the default
\* limit of listNewspapers, created at times 1, 2, ...
PrefillArgs ==
  [query |-> <<"O", "l", "d">>, newspapers |-> <<>>, articleCount |-> 0,
   headlines |-> <<>>, userName |-> None, isPublic |-> TRUE]
Prefilled == [k \in 1..(DefaultLimit - 1) |-> Document(PrefillArgs, k, k)]

\* the arguments createNewspaper is called with: shared with a name, and
\* private
StoreArgs ==
  {CreateArgs([query |-> <<"A", "I", " ", "n", "e", "w", "s">>, userName |-> <<"A", "l">>,
               showNameInput |-> TRUE, includeInDatabase |-> TRUE],
              <<ArticleN1>>, <<"S", ".">>),
   CreateArgs([query |-> <<"a", "i", " ", "l", "a", "w">>, userName |-> <<>>,
               showNameInput |-> FALSE, includeInDatabase |-> FALSE],
              <<ArticleN1, ArticleW1>>, <<"S", ".">>)}

\* the limit of a listNewspapers call: omitted, or a number (GlobalFeed
\* asks for 20 and then 20 more each time)
Limits == {None, Some(0), Some(1), Some(2), Some(DefaultLimit + 20)}

Inserted ==
  IF Len(db) >= Len(Prefilled) THEN Len(db) - Len(Prefilled) ELSE Len(db)

Returned(op, args, value) == [op |-> op, args |-> args, value |-> value]

InitStore ==
  /\ pc = "store"
  /\ db \in {<<>>, Prefilled}
  /\ now = Len(db)
  /\ result = Null
  /\ IdleForm /\ IdleChain
  /\ IdleParse /\ IdleHighlight /\ IdleDetail

\* a client calls the mutation createNewspaper
CreateNewspaper ==
  /\ pc = "store"
  /\ Inserted < MaxInserts
  /\ \E args \in StoreArgs, t \in DateNow :
       /\ now' = t
       /\ db' = Insert(db, args, t)
       /\ result' = Returned("createNewspaper", args, Len(db'))
  /\ UNCHANGED <<pc, formVars, chainVars, otherVars>>

\* a client calls the query listNewspapers
ListNewspapers ==
  /\ pc = "store"
  /\ \E limit \in Limits :
       result' = Returned("listNewspapers", [limit |-> limit],
                          listNewspapers(db, [limit |-> limit]))
  /\ UNCHANGED <<pc, db, now, formVars, chainVars, otherVars>>

\* a client calls the query getNewspaper
GetNewspaper ==
  /\ pc = "store"
  /\ \E id \in {1, Len(db), Len(db) + 1} \ {0} :
       result' = Returned("getNewspaper", [id |-> id], getNewspaper(db, [id |-> id]))
  /\ UNCHANGED <<pc, db, now, formVars, chainVars, otherVars>>

\* a client calls the query getStats
GetStats ==
  /\ pc = "store"
  /\ result' = Returned("getStats", Null, getStats(db))
  /\ UNCHANGED <<pc, db, now, formVars, chainVars, otherVars>>

NextStore == CreateNewspaper \/ ListNewspapers \/ GetNewspaper \/ GetStats

SpecStore == InitStore /\ [][NextStore]_vars

(***************************************************************************)
(* Properties of the stored records (checked under SpecStore).             *)
(***************************************************************************)
Listed == result # Null /\ result.op = "listNewspapers"

PublicRecords == {db[i] : i \in {j \in 1..Len(db) : db[j].isPublic = TRUE}}
PrivateRecords == {db[i] : i \in {j \in 1..Len(db) : db[j].isPublic = FALSE}}

\* C18: whatever the limit and whatever createNewspaper calls were made,
\* every record listNewspapers returns is a stored record whose isPublic is
\* true; a record created with sharing off is not among them
C18_OnlyPublicListed ==
  Listed =>
    \A k \in 1..Len(result.value) :
      /\ result.value[k].isPublic = TRUE
      /\ result.value[k] \in PublicRecords
      /\ result.value[k] \notin PrivateRecords

\* the feed was asked for more records than the table holds, the table's
\* newest record is private, and the feed holds the others only
C18_Witness ==
  /\ Listed
  /\ result.args.limit = Some(DefaultLimit + 20)
  /\ Len(db) >= 2
  /\ db[Len(db)].isPublic = FALSE
  /\ \A i \in 1..(Len(db) - 1) : db[i].createdAt < db[Len(db)].createdAt
  /\ Len(result.value) >= 1
  /\ Len(result.value) < Len(db)

\* the limit a listNewspapers call works with
LimitOf(args) == IF args.limit = None THEN 20 ELSE args.limit[1]

\* C19: listNewspapers returns min(limit, number of public records)
\* different public records, in descending createdAt order, and no public
\* record it leaves out was created later than one it returns; the limit is
\* 20 when omitted; private records take no place in the count
C19_NewestPublicUpToLimit ==
  Listed =>
    LET v == result.value
        limit == LimitOf(result.args)
        count == Cardinality(PublicRecords)
    IN  /\ Len(v) = IF limit < count THEN limit ELSE count
        /\ \A k \in 1..Len(v) : v[k] \in PublicRecords
        /\ \A j, k \in 1..Len(v) : v[j] = v[k] => j = k
        /\ \A k \in 1..(Len(v) - 1) : v[k].createdAt >= v[k + 1].createdAt
        /\ \A d \in PublicRecords :
             (\A k \in 1..Len(v) : v[k] # d) =>
               \A k \in 1..Len(v) : d.createdAt <= v[k].createdAt

\* the limit was omitted, the table holds more than 20 public records and a
\* private one created after some public one, and 20 records were returned
C19_Witness ==
  /\ Listed
  /\ result.args.limit = None
  /\ Cardinality(PublicRecords) > 20
  /\ \E p \in PrivateRecords : \E d \in PublicRecords : p.createdAt > d.createdAt
  /\ Len(result.value) = 20

\* a limit of two cut the list although private records stand between the
\* newest public ones
C19_WitnessSmallLimit ==
  /\ Listed
  /\ result.args.limit = Some(2)
  /\ Len(result.value) = 2
  /\ \E p \in PrivateRecords :
       /\ p.createdAt > result.value[2].createdAt
       /\ p.createdAt < result.value[1].createdAt

\* the fields of a stored record that come from the arguments
ArgumentFields(r) ==
  [query |-> r.query, newspapers |-> r.newspapers,
   articleCount |-> r.articleCount, headlines |-> r.headlines,
   userName |-> r.userName, isPublic |-> r.isPublic]

\* C20: every step leaves the stored records as they are, except a
\* createNewspaper call, which leaves every existing record as it is and adds
\* exactly one record, whose fields are the call's arguments and the time
\* read; listNewspapers, getNewspaper and getStats change no record
C20_RecordsImmutable ==
  [][ /\ \/ db' = db
         \/ /\ result'.op = "createNewspaper"
            /\ Len(db') = Len(db) + 1
            /\ SubSeq(db', 1, Len(db)) = db
            /\ ArgumentFields(db'[Len(db')]) = result'.args
            /\ db'[Len(db')].createdAt = now'
            /\ result'.value = db'[Len(db')]._id
            /\ \A i \in 1..Len(db) : db[i]._id # db'[Len(db')]._id
      /\ result'.op \in {"listNewspapers", "getNewspaper", "getStats"} => db' = db
    ]_vars

\* a private record without a name has just been added to a table that
\* held public records
C20_Witness ==
  /\ result # Null
  /\ result.op = "createNewspaper"
  /\ result.args.isPublic = FALSE
  /\ result.args.userName = None
  /\ Len(db) >= 2
  /\ db[Len(db)].isPublic = FALSE
  /\ db[Len(db) - 1].isPublic = TRUE
  /\ ArgumentFields(db[Len(db)]) = result.args

(***************************************************************************)
(* Properties of the heading markers and the section ranges (checked       *)
(* under SpecParse).                                                       *)
(***************************************************************************)
\* the place after the marker '##' or '<integer>.' that stands in s at i
\* (0: no marker there)
AfterMarker(s, i) ==
  LET d == SkipClass(s, i, Digit)
  IN  IF IsAt(s, i, <<"#", "#">>) THEN i + 2
      ELSE IF d > i /\ d <= Len(s) /\ s[d] = "." THEN d + 1
      ELSE 0

\* the place of the line break that ends the line of s holding i
\* (Len(s) + 1 for the last line without one)
LineEnd(s, i) == SkipTo(s, i, {NL})

\* a line '## <text>' or '<integer>. <text>' starts in s at i: the marker, a
\* blank, and text on the same line
HeadingLine(s, i) ==
  /\ LineStart(s, i)
  /\ AfterMarker(s, i) # 0
  /\ AfterMarker(s, i) <= Len(s)
  /\ s[AfterMarker(s, i)] = " "
  /\ Trim(SubSeq(s, AfterMarker(s, i), LineEnd(s, i) - 1)) # <<>>

\* the text of the heading line that starts in s at i
HeadingText(s, i) == Trim(SubSeq(s, AfterMarker(s, i), LineEnd(s, i) - 1))

\* the place where the marker of match m stands: after the line break the
\* match begins with, if it begins with one
MarkerStart(m) ==
  IF formatted[m.index] = NL THEN m.index + 1 ELSE m.index

\* C21 as stated: every line of the formatted text that starts with
\* '## <text>' or '<integer>. <text>' is a collected marker, the markers are
\* in order of appearance, and the marker's section has the heading text as
\* its title; also on the last line and for heading lines that follow one
\* another
C21_EveryHeadingLineCollected ==
  pc = "return" =>
    /\ \A j, k \in 1..Len(matches) : j < k => matches[j].index < matches[k].index
    /\ \A i \in 1..Len(formatted) :
         HeadingLine(formatted, i) =>
           \E k \in 1..Len(matches) :
             /\ MarkerStart(matches[k]) = i
             /\ sections[Lead + k].title = HeadingText(formatted, i)

\* the place where the range of the section of matches[k] ends: the start of
\* the next match, or the end of the text
NextMarker(k) ==
  IF k < Len(matches) THEN matches[k + 1].index ELSE Len(formatted) + 1

\* C22 as stated: for each detected marker the title is the text of the
\* marker's own line and the content is the text between the end of that
\* line and the start of the next detected marker (or the end of the text)
C22_TitleOnMarkerLine ==
  pc = "return" =>
    \A k \in 1..Len(matches) :
      LET i == MarkerStart(matches[k])
          lineEnd == LineEnd(formatted, i)
      IN  /\ sections[Lead + k].title =
               Trim(SubSeq(formatted, AfterMarker(formatted, i), lineEnd - 1))
          /\ sections[Lead + k].content =
               Trim(SubSeq(formatted, lineEnd + 1, NextMarker(k) - 1))

\* the first place at or after the marker of matches[k] that holds no
\* whitespace: where the heading's text starts, on the marker's line or on a
\* later one
TextStart(k) ==
  SkipClass(formatted, AfterMarker(formatted, MarkerStart(matches[k])), Whitespace)

\* C22, amended: for each detected marker the title is the text of the first
\* line, from the marker on, that holds text: the rest of the marker's line,
\* or a later line when only whitespace follows the marker on its own; the
\* content is the text between the end of that line and the start of the
\* next detected marker (or the end of the text), trimmed.  A title is empty
\* only when that line does not end in a line break, and then the content
\* starts with it.  The ranges of marker and title are in no content.
C22_TitleOnFirstTextLine ==
  pc = "return" =>
    \A k \in 1..Len(matches) :
      LET t == TextStart(k)
          lineEnd == LineEnd(formatted, t)
          section == sections[Lead + k]
      IN  /\ MarkerStart(matches[k]) < t
          /\ IF section.title # <<>>
             THEN /\ lineEnd <= Len(formatted)
                  /\ section.title = Trim(SubSeq(formatted, t, lineEnd - 1))
                  /\ section.content =
                       Trim(SubSeq(formatted, lineEnd + 1, NextMarker(k) - 1))
             ELSE /\ LineEnd(formatted, t) > Len(formatted)
                       \/ formatted[SkipTo(formatted, t, LineTerminator)] # NL
                  /\ section.content = Trim(SubSeq(formatted, t, NextMarker(k) - 1))
          /\ t <= NextMarker(k)

\* a marker alone on its line took its title from the next line holding text
C22_Witness ==
  /\ pc = "return"
  /\ Len(matches) >= 1
  /\ LineEnd(formatted, MarkerStart(matches[1])) < TextStart(1)
  /\ sections[Lead + 1].title # <<>>
  /\ sections[Lead + 1].content # <<>>

\* C23: the sections stand in the order of their markers in the text, the
\* text before the first marker first, whatever their keys; the content of
\* each is taken from a range of the formatted text, and the range of a
\* section ends before the range of the next one starts
C23_DocumentOrder ==
  (pc = "return" /\ Len(matches) > 0) =>
    /\ Lead \in {0, 1}
    /\ Lead = 1 =>
         sections[1].content = Trim(SubSeq(formatted, 1, matches[1].index - 1))
    /\ \A k \in 1..Len(matches) :
         /\ matches[k].index < matches[k].end
         /\ matches[k].end <= NextMarker(k)
         /\ sections[Lead + k].content =
              Trim(SubSeq(formatted, matches[k].end, NextMarker(k) - 1))
         /\ sections[Lead + k].title =
              Trim(SubSeq(formatted, matches[k].titleStart, matches[k].titleEnd - 1))

\* two sections with text, the first keyed other and the second
\* comprehensive: the order of the text, not the order of the keys
C23_Witness ==
  /\ pc = "return"
  /\ Len(matches) = 2
  /\ Len(sections) = 2
  /\ sections[1].key = "other"
  /\ sections[2].key = "comprehensive"
  /\ sections[1].content # <<>>
  /\ sections[2].content # <<>>
  /\ sections[1].title # sections[2].title

\* C24: when both searches have returned and no article was found, the
\* submission ends there: no call is added to the two searches, so that
\* summarizeArticles and createNewspaper are not called, nothing is in
\* flight, no record is stored, the one alert shown is 'No articles found.
\* Please try a different query.', and the form is idle again
C24_NoArticlesStops ==
  [][ (SearchWashPostReturns /\ Len(allArticles') = 0) =>
        /\ pc' = "idle"
        /\ inFlight' = {}
        /\ calls' = calls
        /\ Len(calls') = 2
        /\ \A k \in 1..Len(calls') :
             calls'[k].name \notin {"summarizeArticles", "createNewspaper"}
        /\ db' = db
        /\ db' = dbAtSubmit
        /\ alerts' = << <<"N", "o", " ", "a", "r", "t", "i", "c", "l", "e", "s", " ", "f", "o", "u", "n", "d", ".", " ", "P", "l", "e", "a", "s", "e", " ", "t", "r", "y", " ", "a", " ", "d", "i", "f", "f", "e", "r", "e", "n", "t", " ", "q", "u", "e", "r", "y", ".">> >>
        /\ isLoading' = FALSE
        /\ loadingStatus' = <<>>
        /\ buildingArticles' = <<>>
        /\ buildingSummary' = <<>>
    ]_vars

\* both searches returned without an article: two calls were made, the alert
\* is on screen and the form is idle
C24_Witness ==
  /\ pc = "idle"
  /\ Len(calls) = 2
  /\ calls[2].name = "searchWashPost"
  /\ nytResponse = [articles |-> <<>>]
  /\ allArticles = <<>>
  /\ alerts = << <<"N", "o", " ", "a", "r", "t", "i", "c", "l", "e", "s", " ", "f", "o", "u", "n", "d", ".", " ", "P", "l", "e", "a", "s", "e", " ", "t", "r", "y", " ", "a", " ", "d", "i", "f", "f", "e", "r", "e", "n", "t", " ", "q", "u", "e", "r", "y", ".">> >>
  /\ ~isLoading
  /\ db = dbAtSubmit

\* C25: a submission that has started (isLoading is true) eventually ends
\* with isLoading false and loadingStatus, buildingArticles and
\* buildingSummary empty, whatever the outcome of its calls, when every call
\* eventually returns or throws
C25_LoadingEnds ==
  isLoading ~> (/\ ~isLoading
                /\ loadingStatus = <<>>
                /\ buildingArticles = <<>>
                /\ buildingSummary = <<>>)

\* a submission ended at its first call, which threw: the form is idle,
\* nothing of the loading display is left
C25_Witness ==
  /\ pc = "idle"
  /\ Len(calls) = 1
  /\ Len(alerts) = 1
  /\ ~isLoading
  /\ loadingStatus = <<>>
  /\ buildingArticles = <<>>
  /\ buildingSummary = <<>>

\* C26: a run of handleSubmit starts only when no chain is running and
\* nothing is in flight; a chain is running exactly while isLoading is true,
\* and then at most one call is in flight; a step that stores a record
\* stores one and leaves the query empty, so that the same query is not
\* submitted again
C26_OneChain ==
  [][ /\ Submit => (pc = "idle" /\ inFlight = {} /\ ~isLoading)
      /\ isLoading' = (pc' # "idle")
      /\ inFlight' = (IF pc' = "idle" THEN {} ELSE {pc'})
      /\ db' # db =>
           /\ Len(db') = Len(db) + 1
           /\ Trim(query') = <<>>
           /\ pc' = "idle"
    ]_vars

\* a chain is waiting for the summarizer while the query is still in the
\* textarea: only isLoading keeps a second submit event away
C26_Witness ==
  /\ pc = "summarizeArticles"
  /\ isLoading
  /\ Trim(query) # <<>>
  /\ inFlight = {"summarizeArticles"}
  /\ Len(db) < MaxRecords

\* s has no whitespace at either end
IsTrimmed(s) ==
  s = <<>> \/ (s[1] \notin Whitespace /\ s[Len(s)] \notin Whitespace)

\* the records stored by this QueryInput: those after the ones found at the
\* start
CreatedRecords == {db[i] : i \in 2..Len(db)}

\* C27: showNameInput equals includeInDatabase in every state; a record
\* created with isPublic false has no userName; a userName that is stored
\* is not empty and has no whitespace at its ends; and the record a
\* submission stored has the name typed at the submit, trimmed, exactly
\* when sharing was on and something but whitespace was typed
C27_NameOnlyWhenShared ==
  /\ showNameInput = includeInDatabase
  /\ \A r \in CreatedRecords :
       /\ r.isPublic = FALSE => r.userName = None
       /\ r.userName # None =>
            /\ r.userName[1] # <<>>
            /\ IsTrimmed(r.userName[1])
  /\ (pc = "idle" /\ calls # <<>> /\ db # dbAtSubmit) =>
       LET r == db[Len(db)]
           typed == closure.userName
       IN  /\ r.isPublic = closure.includeInDatabase
           /\ IF closure.includeInDatabase /\ \E k \in 1..Len(typed) : typed[k] \notin Whitespace
              THEN /\ r.userName # None
                   /\ \E a, b \in 1..Len(typed) : r.userName[1] = SubSeq(typed, a, b)
              ELSE r.userName = None

\* a private record without a name was stored although a name had been
\* typed before sharing was switched off
C27_Witness ==
  /\ pc = "idle"
  /\ calls # <<>>
  /\ db # dbAtSubmit
  /\ db[Len(db)].isPublic = FALSE
  /\ db[Len(db)].userName = None
  /\ closure.userName = <<" ", "A", "l", " ">>

\* a shared record holds the typed name without the blanks around it
C27_WitnessTrimmed ==
  /\ pc = "idle"
  /\ calls # <<>>
  /\ db # dbAtSubmit
  /\ db[Len(db)].isPublic = TRUE
  /\ db[Len(db)].userName = Some(<<"A", "l">>)
  /\ closure.userName = <<" ", "A", "l", " ">>

\* C28: the end of a submission that failed or found no article leaves
\* query, userName and createdNewspaperId as they are, and the query is
\* still the one submitted; the end of a submission whose createNewspaper
\* call returned clears query and userName and sets createdNewspaperId to
\* the identifier of the record stored; no other step of the chain changes
\* any of the three
C28_FormKeptUnlessCreated ==
  [][ /\ (CallThrows \/ (SearchWashPostReturns /\ Len(allArticles') = 0)) =>
           /\ query' = query
           /\ userName' = userName
           /\ createdNewspaperId' = createdNewspaperId
           /\ query' = closure.query
           /\ db' = db
      /\ CreateNewspaperReturns =>
           /\ query' = <<>>
           /\ userName' = <<>>
           /\ Len(db') = Len(db) + 1
           /\ createdNewspaperId' = <<db'[Len(db')]._id>>
           /\ db'[Len(db')].query = closure.query
      /\ (Submit \/ SearchNYTReturns \/ SearchWashPostReturns \/ SummarizeReturns) =>
           /\ query' = query
           /\ userName' = userName
           /\ createdNewspaperId' = createdNewspaperId
      /\ (createdNewspaperId' # createdNewspaperId /\ createdNewspaperId' # <<>>) =>
           db' # db
    ]_vars

\* the summarizer failed: the query and the name typed are still in the form
C28_Witness ==
  /\ pc = "idle"
  /\ Len(calls) = 3
  /\ Len(alerts) = 1
  /\ query = <<"a", "i">>
  /\ userName = <<" ", "A", "l", " ">>
  /\ createdNewspaperId = <<>>

\* the record was stored: the form is empty and the detail view of the new
\* record is open
C28_WitnessCreated ==
  /\ pc = "idle"
  /\ db # dbAtSubmit
  /\ calls # <<>>
  /\ query = <<>>
  /\ userName = <<>>
  /\ closure.userName # <<>>
  /\ createdNewspaperId = <<Len(db)>>

\* the record the detail view shows: getNewspaper of createdNewspaperId
Shown == getNewspaper(db, [id |-> createdNewspaperId[1]])

\* C29: in the detail view of a record the pipeline created, the summary is
\* the entry '0_summary' and no other, the source articles are the entries
\* 'article1' .. 'article<n>' and no other, n being the record's
\* articleCount; and the same split holds for every record created
C29_SummaryApartFromArticles ==
  /\ createdNewspaperId # None =>
       /\ Shown # Null
       /\ summaryEntry(Shown.newspapers) # None
       /\ summaryEntry(Shown.newspapers)[1].key = <<"0", "_", "s", "u", "m", "m", "a", "r", "y">>
       /\ summaryEntry(Shown.newspapers)[1].value.content
            \in {r.summary : r \in SummarizeResponses}
       /\ Len(sourceArticles(Shown.newspapers)) = Shown.articleCount
       /\ \A i \in 1..Shown.articleCount :
            /\ sourceArticles(Shown.newspapers)[i].key = ArticleKey(i)
            /\ sourceArticles(Shown.newspapers)[i] # summaryEntry(Shown.newspapers)[1]
       /\ (pc = "idle" /\ calls # <<>> /\ db # dbAtSubmit) =>
            /\ Shown.articleCount = Len(allArticles)
            /\ \A i \in 1..Len(allArticles) :
                 sourceArticles(Shown.newspapers)[i].value.link = allArticles[i].url
  /\ \A k \in 1..Len(db) :
       /\ Len(sourceArticles(db[k].newspapers)) = db[k].articleCount
       /\ Len(db[k].newspapers) = db[k].articleCount + 1
       /\ summaryEntry(db[k].newspapers) # None

\* the detail view of a record made from three articles is open
C29_Witness ==
  /\ createdNewspaperId # None
  /\ Shown # Null
  /\ Shown.articleCount = 3
  /\ Len(sourceArticles(Shown.newspapers)) = 3
  /\ summaryEntry(Shown.newspapers) # None

(***************************************************************************)
(* Properties of the backslashes (checked under SpecParse).                *)
(***************************************************************************)
\* s with every backslash replaced, together with the whitespace on both
\* sides of it, by one blank, from left to right
StrayReplaced(s) ==
  LET from[p \in 1..(Len(s) + 1)] ==
        IF p > Len(s) THEN <<>>
        ELSE LET a == SkipClass(s, p, Whitespace)
             IN  IF a <= Len(s) /\ s[a] = "\\"
                 THEN <<" ">> \o from[SkipClass(s, a + 1, Whitespace)]
                 ELSE <<s[p]>> \o from[p + 1]
  IN  from[1]

C30_WitnessWithBreak ==
  /\ pc = "return"
  /\ content = <<"a", "\n", "\\", " ">>
  /\ formatted = <<"a", " ">>

====
